---- MODULE Spec2Model ----
(***************************************************************************)
(* Page-by-page recognition pipeline of the Gemini OCR / HTR processors:   *)
(* the per-page tiered strategy (inline, staged upload with retries,       *)
(* alternative prompts), the per-document page loop and assembly, and the  *)
(* spreadsheet batch pass.                                                 *)
(***************************************************************************)
EXTENDS Integers, Sequences, FiniteSets, TLC

(***************************************************************************)
(* Bounds of the model and constants of the program.                       *)
(***************************************************************************)
MaxPages == 2

MaxRows == 2
\* Rows of a spreadsheet when process_pdf_to_text is taken by its result.
MaxFlatRows == 5

MaxAudioFiles == 2

MaxSegments == 3

MaxPdfs == 2

MaxSummaryRows == 3

\* the size an output file must exceed to count
MinOutputBytes == 100

max_retries == 3

base_delay == 2

max_processing_time == 60

InlineLimitMB == 20

BytesPerMB == 1024 * 1024

NumAlternatives == 3

\* Page counts of a document of a spreadsheet row.
SheetPageCounts == {-1, 0, 1}

\* Sizes of an extracted page, in bytes: just below and exactly at the limit.
PageSizes == {InlineLimitMB * BytesPerMB - 1, InlineLimitMB * BytesPerMB}

(***************************************************************************)
(* Strings are sequences of characters; None is Python's None.             *)
(***************************************************************************)
None == [some |-> FALSE, v |-> <<>>]

Some(t) == [some |-> TRUE, v |-> t]

\* Python truthiness of an Optional[str].
Truthy(o) == o.some /\ o.v # <<>>

Whitespace == {" ", "nbsp"}

\* str.replace('\xa0', ' ')
ReplaceNbsp(s) == [i \in 1..Len(s) |-> IF s[i] = "nbsp" THEN " " ELSE s[i]]

RECURSIVE LStrip(_)
LStrip(s) == IF s # <<>> /\ Head(s) \in Whitespace THEN LStrip(Tail(s)) ELSE s

RECURSIVE RStrip(_)
RStrip(s) ==
    IF s # <<>> /\ s[Len(s)] \in Whitespace
    THEN RStrip(SubSeq(s, 1, Len(s) - 1))
    ELSE s

\* str.strip()
Strip(s) == RStrip(LStrip(s))

RECURSIVE Join(_)
\* "".join(list)
Join(l) == IF l = <<>> THEN <<>> ELSE Head(l) \o Join(Tail(l))

\* The parts of a candidate that carry text (part.text truthy).
TextParts(parts) == SelectSeq(parts, LAMBDA p : p # <<>>)

\* "".join(text_parts).replace('\xa0', ' ').strip()
TextContent(parts) == Strip(ReplaceNbsp(Join(TextParts(parts))))

(***************************************************************************)
(* Responses of the recognition service to generate_content.               *)
(***************************************************************************)
PartLists ==
    { << <<>> >>,
      << <<" ">> >>,
      << <<"nbsp">>, <<>> >>,
      << <<"a">> >>,
      << <<" ", "a">>, <<"nbsp">> >>,
      << <<>>, <<"b", "nbsp", "b">> >>,
      << <<"--- Page 2 ---">> >> }

Responses ==
    { [kind |-> "raise", finish |-> "NONE", parts |-> <<>>],
      [kind |-> "nocandidates", finish |-> "NONE", parts |-> <<>>],
      [kind |-> "nocontent", finish |-> "RECITATION", parts |-> <<>>],
      [kind |-> "nocontent", finish |-> "OTHER", parts |-> <<>>] }
    \cup { [kind |-> "content", finish |-> "STOP", parts |-> p] : p \in PartLists }
    \cup { [kind |-> "content", finish |-> "RECITATION", parts |-> << <<"a">> >>] }

FileStates == {"PROCESSING", "ACTIVE", "FAILED", "OTHER", "raise"}

\* How long the file may stay in PROCESSING before its state settles.
SettleTimes == {0, 1, max_processing_time - 2, max_processing_time - 1, max_processing_time}

\* What the polls of one staged attempt observe: PROCESSING for the first
\* `settle` polls, then the state `then` for ever.
PollObservations == [settle : SettleTimes, then : FileStates]

\* The state the i-th poll (1-based) observes.
ObservedState(obs, i) == IF i <= obs.settle THEN "PROCESSING" ELSE obs.then

\* not candidate.content or not candidate.content.parts
NoContent(r) == r.kind = "nocontent"

\* Variant: any response without content parts starts the alternatives.
AnyNoContent(r) == r.kind = "nocontent"

\* The primary response sends the page to _try_alternative_prompts:
\* no content parts and finish_reason == RECITATION.
TriggersAlternatives(r) == NoContent(r) /\ r.finish = "RECITATION"

\* Variant: a response whose parts hold no text is taken as a success.
PrimaryErrorSkipsEmptyCheck(r) ==
    CASE r.kind = "raise" -> "api error"
      [] r.kind = "nocandidates" -> "No candidates in Gemini response"
      [] r.kind = "nocontent" -> "No valid response"
      [] OTHER -> ""

\* The exception a primary response raises during validation ("" when none).
PrimaryError(r) ==
    CASE r.kind = "raise" -> "api error"
      [] r.kind = "nocandidates" -> "No candidates in Gemini response"
      [] r.kind = "nocontent" -> "No valid response"
      [] TextParts(r.parts) = <<>> -> "No text content in Gemini response"
      [] TextContent(r.parts) = <<>> -> "Empty text response from Gemini"
      [] OTHER -> ""

\* The text an alternative-prompt response yields (<<>> when it yields none).
AlternativeText(r) == IF r.kind = "content" THEN TextContent(r.parts) ELSE <<>>

(***************************************************************************)
(* The HTR processor (GeminiHTR): its page functions are those of the OCR  *)
(* processor line for line, except that the text of a response is taken    *)
(* from response.text.                                                     *)
(***************************************************************************)
\* response.text: the text parts joined, None when no part carries text.
ResponseText(parts) ==
    IF TextParts(parts) = <<>> THEN None ELSE Some(Join(TextParts(parts)))

\* Variant: the text is taken as it came, without strip().
HtrTextContentUnstripped(parts) == ReplaceNbsp(ResponseText(parts).v)

\* response.text.replace('\xa0', ' ').strip()
HtrTextContent(parts) == Strip(ReplaceNbsp(ResponseText(parts).v))

\* The exception a primary response raises in the HTR processor ("" when
\* none): with no text, response.text is None and .replace raises.
HtrPrimaryError(r) ==
    CASE r.kind = "raise" -> "api error"
      [] r.kind = "nocandidates" -> "No candidates in Gemini response"
      [] r.kind = "nocontent" -> "No valid response"
      [] ~ResponseText(r.parts).some -> "AttributeError"
      [] HtrTextContent(r.parts) = <<>> -> "Empty text response from Gemini"
      [] OTHER -> ""

\* The text an alternative-prompt response yields in the HTR processor
\* (<<>> when it yields none or the extraction raises).
HtrAlternativeText(r) ==
    IF r.kind = "content" /\ ResponseText(r.parts).some
    THEN HtrTextContent(r.parts)
    ELSE <<>>

(***************************************************************************)
(* Tokens of the assembled document.                                       *)
(***************************************************************************)
\* "\n\n--- Page {page_num} ---\n\n"
PageMarker(n) == [k |-> "marker", n |-> n, s |-> ""]

\* A piece of a page's text as it stands in the assembled string: the text
\* is copied as it came, so a line of it that reads "--- Page 2 ---" is the
\* same characters as the marker of page 2.
Ch(c) == IF c = "--- Page 2 ---" THEN PageMarker(2) ELSE [k |-> "char", n |-> 0, s |-> c]

\* Variant: the placeholder does not name its page.
ErrorPlaceholderUnnumbered(n, detail) == [k |-> "error", n |-> 0, s |-> detail]

\* "[ERROR: Failed to process page {page_num}]", with ": {str(e)}" when given
ErrorPlaceholder(n, detail) == [k |-> "error", n |-> n, s |-> detail]

Chars(t) == [i \in 1..Len(t) |-> Ch(t[i])]

(***************************************************************************)
(* State.  The document loop (process_pdf / process_pdf_to_text), the      *)
(* locals of the page being processed, and a history of what was done for  *)
(* the current page.                                                       *)
(***************************************************************************)
VARIABLES
    pc,                  \* position in the program
    mode,                \* "to_text" (process_pdf_to_text) or "to_file" (process_pdf)
    prompt_ok,           \* the system prompt file can be read
    total_pages,
    page_idx,
    all_text,            \* process_pdf_to_text: list of segments
    out_file,            \* process_pdf: content of the output file, None when absent
    successful_pages,
    failed_pages,
    result,              \* return value of process_pdf_to_text
    page_size,
    text,                \* Optional[str] of the current page
    tier,                \* page function executing: "inline" or "staged"
    attempt,             \* loop variable of process_pdf_page_upload
    processing_attempts,
    alt_i,               \* index into alternative_prompts (1-based)
    pdf_content,         \* argument of _try_alternative_prompts: "part" or "file"
    hist,                \* what has been done for the current page
    batch,               \* running under process_with_spreadsheet
    pdf_exists,          \* pdf_path.exists()
    total_rows,          \* len(df)
    row_idx,             \* rows handled so far
    df_ocr,              \* the result column of the data frame
    stats,
    saves,               \* writes of the spreadsheet file (df.to_excel)
    row_log,             \* per row handled: the class it was counted in
    cell_writes,         \* per row: assignments to its result cell
    pdf_path,            \* argument of process_pdf_to_text for the current row
    row_in,              \* per row handled: what the row loop was given for it
    api_key,             \* GEMINI_API_KEY is set
    sumpass,             \* the summary stage's pass over the sheet the OCR stage saved
    lookup,              \* the file lookup of the row just handled: what exists in pdf_dir
    audio,               \* transcribe_all_audio_files: its locals, the files on disk
    overall_stats,       \* main(), direct mode: the counters over the PDFs found
    columns              \* df.columns of the spreadsheet read

vars ==
    << pc, mode, prompt_ok, total_pages, page_idx, all_text, out_file,
       successful_pages, failed_pages, result, page_size, text, tier, attempt,
       processing_attempts, alt_i, pdf_content, hist, batch, api_key, pdf_exists,
       total_rows, row_idx, df_ocr, stats, saves, row_log, cell_writes, pdf_path,
       row_in, api_key, sumpass, lookup, audio, overall_stats, columns >>

sheetVars ==
    << batch, total_rows, row_idx, df_ocr, stats, saves, row_log, cell_writes, pdf_path,
       row_in, api_key, sumpass, lookup, audio, overall_stats, columns >>

pageVars == << page_size, text, tier, attempt, processing_attempts, alt_i, pdf_content >>

NewStats ==
    [processed |-> 0, skipped_empty |-> 0, skipped_missing |-> 0, failed |-> 0]

NoResponse == [kind |-> "", finish |-> ""]

Seen(r) == [kind |-> r.kind, finish |-> r.finish]

NoStrategy == [tier |-> "", alt |-> 0]

NoCall == [kind |-> "", finish |-> "", parts |-> <<>>]

NoMessage == [msg |-> "", using |-> 0]

\* "Page N OCR complete" after the primary instruction, in either tier;
\* "Page N complete (using <strategy_name>)" after alternative k.
SuccessMessage(k) ==
    IF k = 0 THEN [msg |-> "OCR complete", using |-> 0]
    ELSE [msg |-> "complete (using", using |-> k]

NewHist ==
    [ inline_calls  |-> 0,       \* calls of process_pdf_page_inline
      uploads       |-> 0,       \* staged attempts begun (files.upload calls)
      primary_calls |-> 0,       \* generate_content calls with the primary instruction
      alt_calls     |-> [k \in 1..NumAlternatives |-> 0],
      delays        |-> <<>>,    \* backoff sleeps, in order
      lastErr       |-> "",      \* last failure observed
      blocks        |-> 0,       \* primary responses that were RECITATION blocks
      blockContent  |-> "",      \* content object of the blocked primary call
      altContent    |-> "",      \* content object of the last alternative call
      lastPrimary   |-> NoResponse,  \* last response to the primary instruction
      allTransient  |-> TRUE,    \* every staged attempt so far ended by an API error
      polls         |-> 0,       \* files.get calls of the current staged attempt
      lastState     |-> "",      \* file state seen by the last of them
      exhausted     |-> FALSE,   \* the alternative list has been run to its end
      gotText       |-> None,    \* text returned by the call that succeeded
      strategyUsed  |-> NoStrategy,  \* tier (and alternative) that produced the text
      raised        |-> FALSE,   \* extraction raised
      prevText      |-> None,    \* text of the page before and the tier it came from
      prevTier      |-> "",
      prevAlt       |-> 0,       \* and the alternative, 0 for the primary instruction
      printed       |-> NoMessage,   \* the success message printed for the page
      response      |-> NoCall,  \* what the last generate_content call gave
      other         |-> <<>>,    \* what the other entry point writes for the same pages
      texts         |-> <<>> ]   \* per page of the document: what its page functions returned

\* The history a new page starts with: it remembers how the last one ended.
PageHist(h) ==
    [NewHist EXCEPT !.prevText = h.gotText,
                    !.prevTier = h.strategyUsed.tier,
                    !.prevAlt = h.strategyUsed.alt,
                    !.texts = h.texts,
                    !.other = h.other]

\* The polls of a staged attempt and the last response are remembered until
\* the next upload or the end of the page only.
ForgetPolls(h) == [h EXCEPT !.polls = 0, !.lastState = "", !.response = NoCall]

\* The summary stage has not run: its position, the rows it has handled, its
\* two result columns, the assignments made to each cell, and its counters.
NoSummaryPass ==
    [ pc |-> "", row_idx |-> 0, Summary |-> <<>>, Keywords |-> <<>>,
      writes |-> <<>>, log |-> <<>>, saves |-> 0,
      stats |-> [processed |-> 0, skipped_empty |-> 0, skipped_error |-> 0, failed |-> 0],
      calls |-> <<>> ]     \* per row handled: calls of the summary service made for it

\* No file has been looked up for the row.
NoLookup == [made |-> FALSE, name |-> <<>>, exact |-> FALSE, with_pdf |-> FALSE]

\* The lookup of the stripped filename n in a directory holding the paths fs:
\* whether pdf_dir / n exists and whether pdf_dir / (n + '.pdf') does.
Lookup(n, fs) ==
    [made |-> TRUE, name |-> n, exact |-> n \in fs, with_pdf |-> (n \o <<".pdf">>) \in fs]

\* transcribe_all_audio_files has not run.
NoAudio ==
    [ pc |-> "", split_segments |-> FALSE, audio_files |-> 0, file_idx |-> 0,
      segment_paths |-> <<>>, combined_transcription_parts |-> <<>>,
      all_segments_successful |-> TRUE, transcription |-> None,
      successful_transcriptions |-> 0, failed_transcriptions |-> 0,
      disk |-> {},         \* the audio and segment files that exist
      outcomes |-> <<>>,   \* per segment of the current file: it was transcribed
      done |-> <<>> ]      \* per file handled: how it ended

\* main() has not reached its direct mode.  idx counts the PDFs handled and
\* log keeps, for each, what its counting saw.
NoOverallStats ==
    [ total_pdfs |-> 0, processed_pdfs |-> 0, failed_pdfs |-> 0, idx |-> 0, log |-> <<>> ]

\* State shared by every entry point before anything has run.
Blank ==
    /\ prompt_ok \in BOOLEAN
    /\ total_pages = 0
    /\ page_idx = 0
    /\ all_text = <<>>
    /\ out_file = None
    /\ successful_pages = 0
    /\ failed_pages = <<>>
    /\ result = None
    /\ page_size = 0
    /\ text = None
    /\ tier = ""
    /\ attempt = 0
    /\ processing_attempts = 0
    /\ alt_i = 0
    /\ pdf_content = ""
    /\ hist = NewHist
    /\ total_rows = 0
    /\ row_idx = 0
    /\ df_ocr = <<>>
    /\ stats = NewStats
    /\ saves = 0
    /\ row_log = <<>>
    /\ cell_writes = <<>>
    /\ pdf_path = None
    /\ row_in = <<>>
    /\ sumpass = NoSummaryPass
    /\ lookup = NoLookup
    /\ audio = NoAudio
    /\ overall_stats = NoOverallStats
    /\ columns = {}

\* A direct call of process_pdf_to_text or process_pdf on one document.
Init ==
    /\ Blank
    /\ pc = "start"
    /\ batch = FALSE
    /\ api_key = TRUE
    /\ mode \in {"to_text", "to_file"}
    /\ pdf_exists \in BOOLEAN

\* A call of process_with_spreadsheet.
SheetInit ==
    /\ Blank
    /\ pc = "sheet"
    /\ batch = TRUE
    /\ api_key = TRUE
    /\ mode = "to_text"
    /\ pdf_exists = FALSE

\* The program is started: main() has not run yet.
MainInit ==
    /\ Blank
    /\ pc = "main"
    /\ batch = FALSE
    /\ api_key \in BOOLEAN
    /\ mode = "to_file"
    /\ pdf_exists = FALSE

(***************************************************************************)
(* Conditions of the code.                                                 *)
(***************************************************************************)
\* Variant: a page of exactly the limit still goes inline.
InlineEligibleInclusive(size) == size <= InlineLimitMB * BytesPerMB

\* if page_size_mb < 20
InlineEligible(size) == size < InlineLimitMB * BytesPerMB

\* Variant: no fallback to the upload after an inline call.
NoFallback(t) == FALSE

\* Variant: the upload tier runs whatever inline returned.
AlwaysUpload(t) == TRUE

\* if not text
NeedsUpload(t) == ~Truthy(t)

\* if text and text.strip()
PageOk(t) == Truthy(t) /\ Strip(t.v) # <<>>

\* Variant: the last retry is never made.
RetryOneLess(a) == a < max_retries - 2

\* Variant: one retry more than max_retries attempts allow.
RetryOnceMore(a) == a < max_retries

\* if attempt < max_retries - 1
ShouldRetry(a) == a < max_retries - 1

\* Variant: the same sleep after every failed attempt.
DelayConstant(a) == base_delay

\* Variant: the exponent counts attempts from 1.
DelayDoubled(a) == base_delay * (2 ^ (a + 1))

\* delay = base_delay * (2 ** attempt)
Delay(a) == base_delay * (2 ^ a)

\* Variant: the loop polls once more after max_processing_time.
StillWaitingInclusive(n) == n <= max_processing_time

\* while processing_attempts < max_processing_time
StillWaiting(n) == n < max_processing_time

\* Variant: the timeout test is off by one.
TimedOutOneEarly(n) == n >= max_processing_time - 1

\* if processing_attempts >= max_processing_time
TimedOut(n) == n >= max_processing_time

\* The while loop over client.files.get: obs[i] is the state the i-th poll
\* observes ("raise" when the call raises); n is processing_attempts and
\* polls the number of calls made.
RECURSIVE PollLoop(_, _, _)
PollLoop(obs, n, polls) ==
    IF ~StillWaiting(n)
    THEN [processing_attempts |-> n, polls |-> polls, state |-> "PROCESSING", error |-> ""]
    ELSE LET state == ObservedState(obs, polls + 1) IN
         CASE state = "ACTIVE" ->
                [processing_attempts |-> n, polls |-> polls + 1, state |-> state, error |-> ""]
           [] state = "FAILED" ->
                [processing_attempts |-> n, polls |-> polls + 1, state |-> state,
                 error |-> "File processing failed"]
           [] state = "raise" ->
                [processing_attempts |-> n, polls |-> polls + 1, state |-> state,
                 error |-> "api error"]
           [] state = "PROCESSING" -> PollLoop(obs, n + 1, polls + 1)
           [] OTHER ->
                [processing_attempts |-> n, polls |-> polls + 1, state |-> state,
                 error |-> "Unexpected file state"]

\* What the readiness loop can come to, over all the service may show it.
PollResults == { PollLoop(obs, 0, 0) : obs \in PollObservations }

\* Variant: the staged tier hands over the inline part, not the uploaded file.
WrongAltContent == "part"

\* the content object process_pdf_page_upload hands to _try_alternative_prompts
StagedAltContent == "file"

\* the content object process_pdf_page_inline hands to _try_alternative_prompts
InlineAltContent == "part"

\* for strategy_name, alternative_prompt in alternative_prompts: is there a next one
HasNextAlternative(i) == i < NumAlternatives

\* Variant: the list is entered one element past its head.
FirstAlternativeSkipped == 1 + 1

\* the first alternative tried
FirstAlternative == 1

\* Variant: the exception leaves the page loop and ends the document.
AfterPageErrorAborts == "done"

\* where the page loop goes after its except clause: on to the next page
AfterPageError == "loop"

\* Variant: every page gets a header, the first one too.
SegmentAlwaysMarked(page_num, body) == <<PageMarker(page_num)>> \o body

\* page marker rule: page 1 has no header
Segment(page_num, body) ==
    IF page_num = 1 THEN body ELSE <<PageMarker(page_num)>> \o body

\* Variant: the placeholder carries the last failure seen.
LastErrDetail(h) == h.lastErr

\* detail of the placeholder written when a page function returned no text
NoTextDetail(h) == ""

(***************************************************************************)
(* Continuations shared by the page functions.                             *)
(***************************************************************************)
\* process_pdf_page_inline has returned t: the fallback test of the page loop.
AfterInline(t, h) ==
    /\ text' = t
    /\ hist' = IF Truthy(t) THEN h ELSE [h EXCEPT !.lastPrimary = NoResponse]
    /\ IF NeedsUpload(t)
       THEN /\ pc' = "upload"
            /\ tier' = "staged"
            /\ attempt' = 0
       ELSE /\ pc' = "emit"
            /\ UNCHANGED << tier, attempt >>

\* The except clause of one staged attempt: back off and retry, or give up.
StagedFail(msg, h) ==
    LET h1 == [h EXCEPT !.lastErr = msg,
                        !.lastPrimary = NoResponse,
                        !.allTransient = @ /\ msg = "api error"] IN
    /\ text' = None
    /\ IF ShouldRetry(attempt)
       THEN /\ hist' = [h1 EXCEPT !.delays = Append(@, Delay(attempt))]
            /\ attempt' = attempt + 1
            /\ pc' = "upload"
       ELSE /\ hist' = h1
            /\ attempt' = 0
            /\ pc' = "emit"

\* A call returned text t: the page function returns it.
Succeeded(h, t, strategy, k) ==
    [h EXCEPT !.gotText = Some(t),
              !.strategyUsed = [tier |-> strategy, alt |-> k],
              !.printed = SuccessMessage(k)]

\* Variant: process_pdf writes a header for the first page too.
FileWritesAlwaysMarked(page_num, t, detail) ==
    IF PageOk(t)
    THEN << <<PageMarker(page_num)>>, Chars(t.v) >>
    ELSE << <<PageMarker(page_num), ErrorPlaceholder(page_num, detail)>> >>

\* process_pdf: the f.write calls made for a page whose page functions
\* returned t (detail is the exception text when the page raised).
FileWrites(page_num, t, detail) ==
    IF PageOk(t)
    THEN IF page_num = 1
         THEN << Chars(t.v) >>
         ELSE << <<PageMarker(page_num)>>, Chars(t.v) >>
    ELSE IF page_num = 1
         THEN << <<ErrorPlaceholder(page_num, detail)>> >>
         ELSE << <<PageMarker(page_num), ErrorPlaceholder(page_num, detail)>> >>

\* process_pdf_to_text: the string appended to all_text for such a page.
ListAppend(page_num, t, detail) ==
    IF PageOk(t)
    THEN IF page_num = 1
         THEN Chars(t.v)
         ELSE <<PageMarker(page_num)>> \o Chars(t.v)
    ELSE IF page_num = 1
         THEN <<ErrorPlaceholder(page_num, detail)>>
         ELSE <<PageMarker(page_num), ErrorPlaceholder(page_num, detail)>>

\* What the entry point that is not running does with the same page: in a
\* run of process_pdf_to_text the file process_pdf writes, in a run of
\* process_pdf the list process_pdf_to_text builds.
OtherEntryPoint(o, page_num, t, detail) ==
    IF mode = "to_text"
    THEN o \o Join(FileWrites(page_num, t, detail))
    ELSE Append(o, ListAppend(page_num, t, detail))

\* Variant: a segment is put in front of what was written so far.
WritePrepends(seg) ==
    IF mode = "to_text"
    THEN /\ all_text' = <<seg>> \o all_text
         /\ UNCHANGED out_file
    ELSE /\ out_file' = Some(seg \o out_file.v)
         /\ UNCHANGED all_text

\* Variant: the placeholder of a failed page is not written.
WriteDropsPlaceholder(seg) ==
    IF \E i \in 1..Len(seg) : seg[i].k = "error"
    THEN UNCHANGED << all_text, out_file >>
    ELSE IF mode = "to_text"
    THEN /\ all_text' = Append(all_text, seg)
         /\ UNCHANGED out_file
    ELSE /\ out_file' = Some(out_file.v \o seg)
         /\ UNCHANGED all_text

\* Appending one segment to the output of the current mode.
Write(seg) ==
    IF mode = "to_text"
    THEN /\ all_text' = Append(all_text, seg)
         /\ UNCHANGED out_file
    ELSE /\ out_file' = Some(out_file.v \o seg)
         /\ UNCHANGED all_text

(***************************************************************************)
(* The document: process_pdf_to_text and process_pdf.                      *)
(***************************************************************************)
\* What get_pdf_page_count may answer; -1 stands for its exception.  In a
\* sheet of several rows, and in a folder of several PDFs, the documents are
\* kept to one page.
PageCounts ==
    IF (batch /\ total_rows > 1) \/ overall_stats.total_pdfs > 1
    THEN SheetPageCounts
    ELSE -1..MaxPages

\* Existence check and get_pdf_page_count.
OpenDocument ==
    /\ pc = "start"
    /\ \E count \in PageCounts :
         IF ~pdf_exists \/ count = -1
         THEN /\ pc' = "done"
              /\ UNCHANGED << total_pages, out_file >>
         ELSE /\ pc' = "loop"
              /\ total_pages' = count
              /\ out_file' = IF mode = "to_file" THEN Some(<<>>) ELSE out_file
    /\ page_idx' = 0
    /\ all_text' = <<>>
    /\ successful_pages' = 0
    /\ failed_pages' = <<>>
    /\ result' = None
    /\ lookup' = NoLookup
    /\ UNCHANGED << batch, total_rows, row_idx, df_ocr, stats, saves, row_log, cell_writes,
                    pdf_path, row_in, api_key, sumpass, audio, overall_stats,
                    columns, pdf_exists >>
    /\ UNCHANGED << mode, prompt_ok, page_size, text, tier, attempt,
                    processing_attempts, alt_i, pdf_content, hist >>

\* Head of the page loop: extract_pdf_page, then the choice of the first tier.
ExtractPage ==
    /\ pc = "loop"
    /\ page_idx < total_pages
    /\ \E ok \in BOOLEAN, size \in PageSizes :
         IF ~ok
         THEN \* extract_pdf_page raised: the except clause of the page loop
              /\ failed_pages' = Append(failed_pages, page_idx + 1)
              /\ Write(Segment(page_idx + 1,
                               <<ErrorPlaceholder(page_idx + 1, "extract error")>>))
              /\ page_idx' = page_idx + 1
              /\ hist' = [PageHist(hist) EXCEPT !.raised = TRUE,
                                                 !.lastErr = "extract error",
                                                 !.texts = Append(@, None),
                                                 !.other = OtherEntryPoint(@, page_idx + 1,
                                                               None, "extract error")]
              /\ text' = None
              /\ pc' = AfterPageError
              /\ UNCHANGED << page_size, tier, attempt >>
         ELSE /\ page_size' = size
              /\ text' = None
              /\ hist' = PageHist(hist)
              /\ IF InlineEligible(size)
                 THEN /\ pc' = "inline"
                      /\ tier' = "inline"
                      /\ UNCHANGED attempt
                 ELSE /\ pc' = "upload"
                      /\ tier' = "staged"
                      /\ attempt' = 0
              /\ UNCHANGED << page_idx, failed_pages, all_text, out_file >>
    /\ UNCHANGED << sheetVars, pdf_exists >>
    /\ UNCHANGED << mode, prompt_ok, total_pages, successful_pages, result,
                    processing_attempts, alt_i, pdf_content >>

\* The page's segment: text or placeholder, after the marker rule.
EmitPage ==
    /\ pc = "emit"
    /\ IF PageOk(text)
       THEN /\ Write(Segment(page_idx + 1, Chars(text.v)))
            /\ successful_pages' = successful_pages + 1
            /\ UNCHANGED failed_pages
       ELSE /\ failed_pages' = Append(failed_pages, page_idx + 1)
            /\ Write(Segment(page_idx + 1,
                             <<ErrorPlaceholder(page_idx + 1, NoTextDetail(hist))>>))
            /\ UNCHANGED successful_pages
    /\ page_idx' = page_idx + 1
    /\ pc' = "loop"
    /\ text' = None
    /\ page_size' = 0
    /\ tier' = ""
    /\ hist' = [ForgetPolls(hist) EXCEPT !.lastPrimary = NoResponse,
                                         !.texts = Append(@, text),
                                         !.other = OtherEntryPoint(@, page_idx + 1,
                                                       text, NoTextDetail(hist))]
    /\ UNCHANGED << sheetVars, pdf_exists >>
    /\ UNCHANGED << mode, prompt_ok, total_pages, result, attempt,
                    processing_attempts, alt_i, pdf_content >>

\* End of the page loop: the joined text is returned (process_pdf returns None).
FinishDocument ==
    /\ pc = "loop"
    /\ page_idx = total_pages
    /\ pc' = "done"
    /\ result' = IF mode = "to_text" /\ all_text # <<>>
                 THEN Some(Join(all_text))
                 ELSE None
    /\ UNCHANGED << sheetVars, pdf_exists >>
    /\ UNCHANGED << mode, prompt_ok, total_pages, page_idx, all_text, out_file,
                    successful_pages, failed_pages, page_size, text, tier, attempt,
                    processing_attempts, alt_i, pdf_content, hist >>

(***************************************************************************)
(* The page: process_pdf_page_inline, process_pdf_page_upload and          *)
(* _try_alternative_prompts, one action per call of the service.           *)
(***************************************************************************)
\* process_pdf_page_inline up to the validation of the primary response.
InlineGenerate ==
    /\ pc = "inline"
    /\ LET h0 == [hist EXCEPT !.inline_calls = @ + 1] IN
       IF ~prompt_ok
       THEN \* _get_system_instruction raised before the call
            /\ AfterInline(None, [h0 EXCEPT !.lastErr = "prompt file not found"])
            /\ UNCHANGED << alt_i, pdf_content >>
       ELSE \E r \in Responses :
              LET h1 == [h0 EXCEPT !.primary_calls = @ + 1, !.lastPrimary = Seen(r),
                                   !.response = r] IN
              IF r.kind \notin {"raise", "nocandidates"} /\ TriggersAlternatives(r)
              THEN /\ pc' = "alt"
                   /\ alt_i' = FirstAlternative
                   /\ pdf_content' = InlineAltContent
                   /\ hist' = [h1 EXCEPT !.blocks = @ + 1,
                                         !.blockContent = "part",
                                         !.lastErr = "RECITATION"]
                   /\ UNCHANGED << text, tier, attempt >>
              ELSE IF PrimaryError(r) # ""
              THEN /\ AfterInline(None, [h1 EXCEPT !.lastErr = PrimaryError(r)])
                   /\ UNCHANGED << alt_i, pdf_content >>
              ELSE /\ AfterInline(Some(TextContent(r.parts)),
                                  Succeeded(h1, TextContent(r.parts), "Inline", 0))
                   /\ UNCHANGED << alt_i, pdf_content >>
    /\ UNCHANGED << sheetVars, pdf_exists >>
    /\ UNCHANGED << mode, prompt_ok, total_pages, page_idx, all_text, out_file,
                    successful_pages, failed_pages, result, page_size,
                    processing_attempts >>

\* One iteration of the loop of _try_alternative_prompts.
AlternativeGenerate ==
    /\ pc = "alt"
    /\ \E r \in Responses :
         LET h1 == [hist EXCEPT !.alt_calls[alt_i] = @ + 1,
                                !.altContent = pdf_content,
                                !.response = r]
             t  == AlternativeText(r)
             why == IF r.kind = "raise" THEN "alternative error"
                    ELSE IF r.kind = "content" THEN "alternative empty"
                    ELSE IF TriggersAlternatives(r) THEN "alternative blocked"
                    ELSE "alternative refused"
         IN
         IF t # <<>>
         THEN LET h2 == Succeeded(h1, t, IF tier = "inline" THEN "Inline" ELSE "Staged",
                                  alt_i) IN
              /\ IF tier = "inline"
                 THEN AfterInline(Some(t), h2)
                 ELSE /\ text' = Some(t)
                      /\ hist' = h2
                      /\ pc' = "emit"
                      /\ attempt' = 0
                      /\ UNCHANGED tier
              /\ alt_i' = 0
              /\ pdf_content' = ""
         ELSE IF HasNextAlternative(alt_i)
         THEN /\ alt_i' = alt_i + 1
              /\ hist' = [h1 EXCEPT !.lastErr = why]
              /\ UNCHANGED << pc, text, tier, attempt, pdf_content >>
         ELSE LET h2 == [h1 EXCEPT !.lastErr = why, !.exhausted = TRUE] IN
              /\ IF tier = "inline"
                 THEN AfterInline(None, h2)
                 ELSE /\ StagedFail("All copyright retry strategies failed", h2)
                      /\ UNCHANGED tier
              /\ alt_i' = 0
              /\ pdf_content' = ""
    /\ UNCHANGED << sheetVars, pdf_exists >>
    /\ UNCHANGED << mode, prompt_ok, total_pages, page_idx, all_text, out_file,
                    successful_pages, failed_pages, result, page_size,
                    processing_attempts >>

\* Start of one staged attempt: client.files.upload.
UploadFile ==
    /\ pc = "upload"
    /\ \E outcome \in {"ok", "noname", "raise"} :
         LET h1 == [ForgetPolls(hist) EXCEPT !.uploads = @ + 1] IN
         IF outcome = "ok"
         THEN /\ pc' = "poll"
              /\ processing_attempts' = 0
              /\ hist' = h1
              /\ UNCHANGED << text, attempt >>
         ELSE /\ StagedFail(IF outcome = "raise" THEN "api error"
                            ELSE "Failed to upload page to Gemini", h1)
              /\ UNCHANGED processing_attempts
    /\ UNCHANGED << sheetVars, pdf_exists >>
    /\ UNCHANGED << mode, prompt_ok, total_pages, page_idx, all_text, out_file,
                    successful_pages, failed_pages, result, page_size, tier,
                    alt_i, pdf_content >>

\* The readiness loop of one staged attempt: client.files.get every second
\* until ACTIVE, an error, or max_processing_time polls saw PROCESSING.
WaitForFile ==
    /\ pc = "poll"
    /\ \E w \in PollResults :
         LET h1 == [hist EXCEPT !.polls = w.polls, !.lastState = w.state] IN
         /\ processing_attempts' = 0
         /\ IF w.error # ""
            THEN StagedFail(w.error, h1)
            ELSE IF TimedOut(w.processing_attempts)
            THEN StagedFail("File processing timed out", h1)
            ELSE /\ pc' = "generate"
                 /\ hist' = h1
                 /\ UNCHANGED << text, attempt >>
    /\ UNCHANGED << sheetVars, pdf_exists >>
    /\ UNCHANGED << mode, prompt_ok, total_pages, page_idx, all_text, out_file,
                    successful_pages, failed_pages, result, page_size, tier,
                    alt_i, pdf_content >>

\* generate_content on the uploaded file and the validation of its response.
StagedGenerate ==
    /\ pc = "generate"
    /\ IF ~prompt_ok
       THEN /\ StagedFail("prompt file not found", ForgetPolls(hist))
            /\ UNCHANGED << alt_i, pdf_content >>
       ELSE \E r \in Responses :
              LET h1 == [ForgetPolls(hist) EXCEPT !.primary_calls = @ + 1,
                                                  !.lastPrimary = Seen(r),
                                                  !.response = r] IN
              IF r.kind \notin {"raise", "nocandidates"} /\ TriggersAlternatives(r)
              THEN /\ pc' = "alt"
                   /\ alt_i' = FirstAlternative
                   /\ pdf_content' = StagedAltContent
                   /\ hist' = [h1 EXCEPT !.blocks = @ + 1,
                                         !.blockContent = "file",
                                         !.lastErr = "RECITATION"]
                   /\ UNCHANGED << text, attempt >>
              ELSE IF PrimaryError(r) # ""
              THEN /\ StagedFail(PrimaryError(r), h1)
                   /\ UNCHANGED << alt_i, pdf_content >>
              ELSE /\ text' = Some(TextContent(r.parts))
                   /\ hist' = Succeeded(h1, TextContent(r.parts), "Staged", 0)
                   /\ pc' = "emit"
                   /\ attempt' = 0
                   /\ UNCHANGED << alt_i, pdf_content >>
    /\ UNCHANGED << sheetVars, pdf_exists >>
    /\ UNCHANGED << mode, prompt_ok, total_pages, page_idx, all_text, out_file,
                    successful_pages, failed_pages, result, page_size, tier,
                    processing_attempts >>

(***************************************************************************)
(* The spreadsheet pass: process_with_spreadsheet.                         *)
(***************************************************************************)
\* Values of the 'filename' cell; nan is pandas' missing value.
NaN == [nan |-> TRUE, s |-> <<>>]

Name(n) == [nan |-> FALSE, s |-> n]

Filenames ==
    { NaN, Name(<<>>), Name(<<" ">>), Name(<<"d">>), Name(<<" ", "d", ".pdf">>),
      Name(<<"d", ".PDF">>) }

\* Paths that may exist in pdf_dir.
PathCandidates == { <<"d">>, <<"d", ".pdf">>, <<"d", ".PDF">>, <<"d", ".PDF", ".pdf">> }

\* str.lower() on one piece of a name
Lower(c) == IF c = ".PDF" THEN ".pdf" ELSE c

\* Variant: the test for the extension is case-sensitive.
EndsWithPdfCaseSensitive(n) == n # <<>> /\ n[Len(n)] = ".pdf"

\* filename.lower().endswith('.pdf')
EndsWithPdf(n) == n # <<>> /\ Lower(n[Len(n)]) = ".pdf"

\* Variant: only a missing value counts as no filename.
IsNaNOnly(f) == f.nan

\* pd.isna(filename) or not str(filename).strip()
IsBlankFilename(f) == f.nan \/ Strip(f.s) = <<>>

\* Variant: the name is not tried with '.pdf' appended.
ResolvePathExactOnly(n, fs) == IF n \in fs THEN Some(n) ELSE None

\* The path handed to process_pdf_to_text, None when no candidate exists.
ResolvePath(n, fs) ==
    IF n \in fs
    THEN Some(n)
    ELSE LET p == IF ~EndsWithPdf(n) THEN n \o <<".pdf">> ELSE n IN
         IF p \in fs THEN Some(p) ELSE None

\* '[SKIPPED: No filename provided]'
SkippedCell == << [k |-> "skipped", n |-> 0, s |-> "No filename provided"] >>

\* '[ERROR: File not found - {filename}]', '[ERROR: OCR processing failed]',
\* '[ERROR: {str(e)}]'
ErrorCell(detail) == << [k |-> "error", n |-> 0, s |-> detail] >>

\* Variant: the row loop is left after the first classified row.
AfterRowBreaks == "exit"

\* Variant: no `continue`, the row falls through to process_pdf_to_text.
AfterRowFallsThrough == "start"

\* Where the row loop goes after a row has been classified.
AfterRow == "rows"

\* What a row gave the loop: its filename cell ("nan", "blank" for an empty
\* or all-whitespace string, "name" otherwise), whether a file was found for
\* it, and how process_pdf_to_text ended ("" when it was not called).
RowInput(filename, found, ended) ==
    [ filename |-> IF filename.nan THEN "nan"
                   ELSE IF \A i \in 1..Len(filename.s) : filename.s[i] \in {" ", "nbsp"}
                        THEN "blank"
                        ELSE "name",
      found |-> found,
      ended |-> ended ]

\* Variant: the outcome is assigned to the whole column, not to the row's cell.
ClassifyWholeColumn(class, cell, input) ==
    /\ row_in' = Append(row_in, input)
    /\ df_ocr' = [r \in 1..total_rows |-> cell]
    /\ cell_writes' = [r \in 1..total_rows |-> cell_writes[r] + 1]
    /\ stats' = [stats EXCEPT ![class] = @ + 1]
    /\ row_log' = Append(row_log, class)
    /\ row_idx' = row_idx + 1
    /\ pdf_path' = None
    /\ pc' = "rows"

\* Variant: the row without a filename is marked but not counted.
ClassifyUncountedSkip(class, cell, input) ==
    /\ row_in' = Append(row_in, input)
    /\ df_ocr' = [df_ocr EXCEPT ![row_idx + 1] = cell]
    /\ cell_writes' = [cell_writes EXCEPT ![row_idx + 1] = @ + 1]
    /\ stats' = IF class = "skipped_empty" THEN stats
                ELSE [stats EXCEPT ![class] = @ + 1]
    /\ row_log' = Append(row_log, class)
    /\ row_idx' = row_idx + 1
    /\ pdf_path' = None
    /\ pc' = "rows"

\* df.at[idx, 'OCR'] = cell; stats[class] += 1; on to the next row.
Classify(class, cell, input) ==
    /\ row_in' = Append(row_in, input)
    /\ df_ocr' = [df_ocr EXCEPT ![row_idx + 1] = cell]
    /\ cell_writes' = [cell_writes EXCEPT ![row_idx + 1] = @ + 1]
    /\ stats' = [stats EXCEPT ![class] = @ + 1]
    /\ row_log' = Append(row_log, class)
    /\ row_idx' = row_idx + 1
    /\ pdf_path' = None
    /\ pc' = AfterRow

\* Variant: without the input column the pass goes on to its row loop.
AfterMissingColumnGoesOn == "rows"

\* where process_with_spreadsheet goes when the input column is missing: it
\* returns
AfterMissingColumn == "return"

\* pd.read_excel, the column check and the setup of the result column.
ReadSheetOf(max_rows) ==
    /\ UNCHANGED << sumpass, lookup, audio, overall_stats >>
    /\ pc = "sheet"
    /\ \E outcome \in {"ok", "raise", "nocolumn"}, n \in 0..max_rows :
         IF outcome = "ok"
         THEN /\ pc' = "rows"
              /\ total_rows' = n
              /\ df_ocr' = [i \in 1..n |-> <<>>]
              /\ cell_writes' = [i \in 1..n |-> 0]
              /\ columns' = {"filename", "OCR"}
         ELSE \* the early return (no 'filename' column) or the except clause
              /\ pc' = IF outcome = "nocolumn" THEN AfterMissingColumn ELSE "error"
              /\ columns' = IF outcome = "nocolumn" THEN {"title"} ELSE columns
              /\ UNCHANGED << total_rows, df_ocr, cell_writes >>
    /\ stats' = NewStats
    /\ UNCHANGED << mode, prompt_ok, total_pages, page_idx, all_text, out_file,
                    successful_pages, failed_pages, result, pageVars, hist, batch, api_key,
                    pdf_exists, row_idx, saves, row_log, pdf_path, row_in >>

ReadSheet == ReadSheetOf(MaxRows)

\* One row up to the call of process_pdf_to_text: filename and file checks.
\* raises: the call raised (the except clause around it).
StartRow ==
    /\ UNCHANGED << sumpass, audio, overall_stats, columns >>
    /\ pc = "rows"
    /\ row_idx < total_rows
    /\ \E filename \in Filenames, fs \in SUBSET PathCandidates, raises \in BOOLEAN :
         /\ lookup' = IF IsBlankFilename(filename) THEN NoLookup
                      ELSE Lookup(Strip(filename.s), fs)
         /\ IF IsBlankFilename(filename)
            THEN /\ Classify("skipped_empty", SkippedCell, RowInput(filename, FALSE, ""))
                 /\ UNCHANGED pdf_exists
            ELSE LET path == ResolvePath(Strip(filename.s), fs) IN
                 IF ~path.some
                 THEN /\ Classify("skipped_missing", ErrorCell("File not found"),
                                  RowInput(filename, FALSE, ""))
                      /\ UNCHANGED pdf_exists
                 ELSE IF raises
                 THEN /\ Classify("failed", ErrorCell("exception"),
                                  RowInput(filename, TRUE, "raise"))
                      /\ UNCHANGED pdf_exists
                 ELSE /\ pc' = "start"
                      /\ pdf_path' = path
                      /\ pdf_exists' = TRUE
                      /\ UNCHANGED << df_ocr, cell_writes, stats, row_log, row_idx, row_in >>
    /\ UNCHANGED << mode, prompt_ok, total_pages, page_idx, all_text, out_file,
                    successful_pages, failed_pages, result, pageVars, hist, batch, api_key,
                    total_rows, saves >>

\* process_pdf_to_text has returned: the row is processed or failed.
RecordRow ==
    /\ UNCHANGED << sumpass, lookup, audio, overall_stats, columns >>
    /\ batch
    /\ pc = "done"
    /\ IF Truthy(result)
       THEN Classify("processed", result.v, RowInput(Name(pdf_path.v), TRUE, "text"))
       ELSE Classify("failed", ErrorCell("OCR processing failed"),
                     RowInput(Name(pdf_path.v), TRUE, "none"))
    /\ result' = None
    /\ total_pages' = 0
    /\ page_idx' = 0
    /\ all_text' = <<>>
    /\ successful_pages' = 0
    /\ failed_pages' = <<>>
    /\ hist' = NewHist
    /\ pdf_exists' = FALSE
    /\ UNCHANGED << mode, prompt_ok, out_file, pageVars, batch, api_key, total_rows, saves >>

\* Variant: the sheet is written after each row as well as at the end.
SaveDueEveryRow == row_idx >= 1 \/ row_idx = total_rows

\* df.to_excel stands after the row loop
SaveDue == row_idx = total_rows

\* After the last row: df.to_excel, once; when it raises, the except clause
\* of the pass reports the error and nothing has been written.
SaveSheet ==
    /\ UNCHANGED << sumpass, lookup, audio, overall_stats, columns >>
    /\ pc = "rows"
    /\ SaveDue
    /\ \E ok \in BOOLEAN :
         /\ saves' = IF ok THEN saves + 1 ELSE saves
         /\ pc' = IF ok THEN "exit" ELSE "error"
    /\ UNCHANGED << mode, prompt_ok, total_pages, page_idx, all_text, out_file,
                    successful_pages, failed_pages, result, pageVars, hist, batch, api_key,
                    pdf_exists, total_rows, row_idx, df_ocr, stats, row_log,
                    cell_writes, pdf_path, row_in >>

\* What process_pdf_to_text returns: None (600, 665, or an empty all_text), or
\* the joined text.
ReturnValues == { None, Some(Chars(<< "a" >>)) }

\* One row of the loop with process_pdf_to_text taken by its result
\* (raises: the call raised).
ProcessRow ==
    /\ UNCHANGED << sumpass, audio, overall_stats, columns >>
    /\ pc = "rows"
    /\ row_idx < total_rows
    /\ \E filename \in Filenames, fs \in SUBSET PathCandidates, raises \in BOOLEAN,
          ocr_text \in ReturnValues :
         /\ lookup' = IF IsBlankFilename(filename) THEN NoLookup
                      ELSE Lookup(Strip(filename.s), fs)
         /\ IF IsBlankFilename(filename)
            THEN Classify("skipped_empty", SkippedCell, RowInput(filename, FALSE, ""))
            ELSE IF ~ResolvePath(Strip(filename.s), fs).some
            THEN Classify("skipped_missing", ErrorCell("File not found"),
                          RowInput(filename, FALSE, ""))
            ELSE IF raises
            THEN Classify("failed", ErrorCell("exception"), RowInput(filename, TRUE, "raise"))
            ELSE IF Truthy(ocr_text)
            THEN Classify("processed", ocr_text.v, RowInput(filename, TRUE, "text"))
            ELSE Classify("failed", ErrorCell("OCR processing failed"),
                          RowInput(filename, TRUE, "none"))
    /\ UNCHANGED << mode, prompt_ok, total_pages, page_idx, all_text, out_file,
                    successful_pages, failed_pages, result, pageVars, hist, batch, api_key,
                    pdf_exists, total_rows, saves >>

ReadWideSheet == ReadSheetOf(MaxFlatRows)

(***************************************************************************)
(* The summary stage: process_with_spreadsheet of AI_generate_summaries,   *)
(* run on the sheet the OCR stage saved.                                   *)
(***************************************************************************)
\* A piece of a cell that str.strip() removes.
IsSpace(tok) == tok.k = "char" /\ tok.s \in Whitespace

RECURSIVE LStripCell(_)
LStripCell(c) == IF c # <<>> /\ IsSpace(Head(c)) THEN LStripCell(Tail(c)) ELSE c

RECURSIVE RStripCell(_)
RStripCell(c) ==
    IF c # <<>> /\ IsSpace(c[Len(c)])
    THEN RStripCell(SubSeq(c, 1, Len(c) - 1))
    ELSE c

\* str(ocr_text).strip() on the content of an 'OCR' cell
StripCell(c) == RStripCell(LStripCell(c))

\* pd.isna(ocr_text) or not str(ocr_text).strip()
IsBlankOcr(c) == StripCell(c) = <<>>

\* Variant: only a row that was skipped counts as a failed OCR.
StartsWithSkippedOnly(c) == c # <<>> /\ c[1].k = "skipped"

\* ocr_text.startswith('[ERROR:') or ocr_text.startswith('[SKIPPED:')
StartsWithErrorOrSkipped(c) == c # <<>> /\ c[1].k \in {"error", "skipped"}

\* What the summary stage does with the content of an 'OCR' cell.
SummaryClass(c) ==
    IF IsBlankOcr(c) THEN "skipped_empty"
    ELSE IF StartsWithErrorOrSkipped(StripCell(c)) THEN "skipped_error"
    ELSE "requested"

\* The content of the 'OCR' cell of a row whose file was found, by what
\* process_pdf_to_text returned.
OcrCell(ocr_text) ==
    IF Truthy(ocr_text) THEN ocr_text.v ELSE ErrorCell("OCR processing failed")

\* pd.read_excel of the saved sheet and the setup of the two result columns.
ReadSummarySheet ==
    /\ pc = "exit"
    /\ sumpass.pc = ""
    /\ \E ok \in BOOLEAN :
         /\ sumpass' = IF ok
                       THEN [ NoSummaryPass EXCEPT
                                !.pc = "rows",
                                !.Summary = [i \in 1..total_rows |-> ""],
                                !.Keywords = [i \in 1..total_rows |-> ""],
                                !.writes = [i \in 1..total_rows |->
                                              [Summary |-> 0, Keywords |-> 0]] ]
                       ELSE [ NoSummaryPass EXCEPT !.pc = "error" ]
         /\ columns' = IF ok THEN columns \cup {"Summary", "Keywords"} ELSE columns
    /\ UNCHANGED << pc, mode, prompt_ok, total_pages, page_idx, all_text, out_file,
                    successful_pages, failed_pages, result, pageVars, hist, pdf_exists,
                    batch, total_rows, row_idx, df_ocr, stats, saves, row_log,
                    cell_writes, pdf_path, row_in, api_key, lookup, audio,
                    overall_stats >>

\* Variant: a failure of the summary call ends the row loop.
AfterSummaryFailureStops(class) == IF class = "failed" THEN "exit" ELSE "rows"

\* where the row loop of the summary stage goes after a row: to the next row
AfterSummaryRow(class) == "rows"

\* The cells and the class of one row of the summary stage; called: the
\* summary service was called for the row.
SummaryOutcome(class, summary_cell, keywords_cell, called) ==
    LET r == sumpass.row_idx + 1 IN
    sumpass' = [ sumpass EXCEPT
                   !.Summary[r] = summary_cell,
                   !.Keywords[r] = keywords_cell,
                   !.writes[r] = [Summary |-> @.Summary + 1, Keywords |-> @.Keywords + 1],
                   !.log = Append(@, class),
                   !.stats[class] = @ + 1,
                   !.calls = Append(@, IF called THEN 1 ELSE 0),
                   !.pc = AfterSummaryRow(class),
                   !.row_idx = r ]

\* One row of the summary stage; generated: what the summary call gave.
SummaryRow ==
    /\ sumpass.pc = "rows"
    /\ sumpass.row_idx < total_rows
    /\ \E generated \in {"summary", "none", "raise"} :
         LET class == SummaryClass(df_ocr[sumpass.row_idx + 1]) IN
         IF class = "skipped_empty"
         THEN SummaryOutcome("skipped_empty", "[SKIPPED: No OCR text provided]", "", FALSE)
         ELSE IF class = "skipped_error"
         THEN SummaryOutcome("skipped_error", "[SKIPPED: OCR failed]", "", FALSE)
         ELSE IF generated = "summary"
         THEN SummaryOutcome("processed", "cleaned_summary", "keywords", TRUE)
         ELSE IF generated = "none"
         THEN SummaryOutcome("failed", "[ERROR: Summary generation failed]", "", TRUE)
         ELSE SummaryOutcome("failed", "[ERROR: exception]", "", TRUE)
    /\ UNCHANGED << pc, mode, prompt_ok, total_pages, page_idx, all_text, out_file,
                    successful_pages, failed_pages, result, pageVars, hist, pdf_exists,
                    batch, total_rows, row_idx, df_ocr, stats, saves, row_log,
                    cell_writes, pdf_path, row_in, api_key, lookup, audio,
                    overall_stats, columns >>

\* After the last row of the summary stage: df.to_excel.
SaveSummarySheet ==
    /\ sumpass.pc = "rows"
    /\ sumpass.row_idx = total_rows
    /\ \E ok \in BOOLEAN :
         sumpass' = [ sumpass EXCEPT !.pc = IF ok THEN "exit" ELSE "error",
                                     !.saves = IF ok THEN @ + 1 ELSE @ ]
    /\ UNCHANGED << pc, mode, prompt_ok, total_pages, page_idx, all_text, out_file,
                    successful_pages, failed_pages, result, pageVars, hist, pdf_exists,
                    batch, total_rows, row_idx, df_ocr, stats, saves, row_log,
                    cell_writes, pdf_path, row_in, api_key, lookup, audio,
                    overall_stats, columns >>

\* Contents of an 'OCR' cell of a sheet given to the summary stage: empty
\* (read as NaN), blanks only, the markers of the OCR stage, one of them
\* after a blank, a text, and a text whose second page failed.
OcrCells ==
    { <<>>, << Ch(" ") >>, SkippedCell, ErrorCell("OCR processing failed"),
      << Ch(" ") >> \o ErrorCell("File not found"), << Ch("a") >>,
      << Ch("a"), PageMarker(2), ErrorPlaceholder(2, "") >> }

\* The summary stage run on a sheet of its own: pd.read_excel, the check of
\* the 'OCR' column and the setup of the two result columns.
ReadOcrSheet ==
    /\ pc = "summary_sheet"
    /\ \E outcome \in {"ok", "raise", "nocolumn"}, n \in 0..MaxSummaryRows :
         \E cells \in [1..n -> OcrCells] :
           /\ total_rows' = IF outcome = "ok" THEN n ELSE total_rows
           /\ df_ocr' = IF outcome = "ok" THEN cells ELSE df_ocr
           /\ columns' = IF outcome = "ok" THEN {"filename", "OCR", "Summary", "Keywords"}
                         ELSE IF outcome = "nocolumn" THEN {"filename"}
                         ELSE columns
           /\ sumpass' =
                IF outcome = "ok"
                THEN [ NoSummaryPass EXCEPT
                         !.pc = "rows",
                         !.Summary = [i \in 1..n |-> ""],
                         !.Keywords = [i \in 1..n |-> ""],
                         !.writes = [i \in 1..n |-> [Summary |-> 0, Keywords |-> 0]] ]
                ELSE [ NoSummaryPass EXCEPT
                         !.pc = IF outcome = "raise" THEN "error" ELSE AfterMissingColumn ]
    /\ pc' = "summary"
    /\ UNCHANGED << mode, prompt_ok, total_pages, page_idx, all_text, out_file,
                    successful_pages, failed_pages, result, pageVars, hist, pdf_exists,
                    batch, row_idx, stats, saves, row_log, cell_writes, pdf_path,
                    row_in, api_key, lookup, audio, overall_stats >>

SummaryInit ==
    /\ Blank
    /\ prompt_ok = TRUE
    /\ pc = "summary_sheet"
    /\ batch = FALSE
    /\ api_key = TRUE
    /\ mode = "to_text"
    /\ pdf_exists = FALSE

SummaryNext ==
    \/ ReadOcrSheet
    \/ SummaryRow
    \/ SaveSummarySheet

\* A run of the summary stage's process_with_spreadsheet.
SpecSummary == SummaryInit /\ [][SummaryNext]_vars

Next ==
    \/ OpenDocument
    \/ ExtractPage
    \/ InlineGenerate
    \/ AlternativeGenerate
    \/ UploadFile
    \/ WaitForFile
    \/ StagedGenerate
    \/ EmitPage
    \/ FinishDocument

Spec == Init /\ [][Next]_vars


SheetNext ==
    \/ Next
    \/ ReadSheet
    \/ StartRow
    \/ RecordRow
    \/ SaveSheet

SpecSheet == SheetInit /\ [][SheetNext]_vars

\* main(): the credential check, the construction of the processor, and the
\* choice between the spreadsheet pass and the pass over the PDFs found.
Main ==
    /\ UNCHANGED << sumpass, lookup, audio, columns >>
    /\ pc = "main"
    /\ IF ~api_key
       THEN /\ pc' = "stopped"
            /\ UNCHANGED << batch, mode, pdf_exists, overall_stats >>
       ELSE \E excel_file \in BOOLEAN, pdf_files \in 0..MaxPdfs :
              IF excel_file
              THEN /\ pc' = "sheet"
                   /\ batch' = TRUE
                   /\ mode' = "to_text"
                   /\ UNCHANGED << pdf_exists, overall_stats >>
              ELSE IF pdf_files > 0
              THEN /\ pc' = "start"
                   /\ pdf_exists' = TRUE
                   /\ overall_stats' = [NoOverallStats EXCEPT !.total_pdfs = pdf_files]
                   /\ UNCHANGED << batch, mode >>
              ELSE /\ pc' = "stopped"
                   /\ UNCHANGED << batch, mode, pdf_exists, overall_stats >>
    /\ UNCHANGED << prompt_ok, total_pages, page_idx, all_text, out_file,
                    successful_pages, failed_pages, result, pageVars, hist, api_key,
                    total_rows, row_idx, df_ocr, stats, saves, row_log, cell_writes,
                    pdf_path, row_in >>

\* "\n\n--- Page N ---\n\n" and "[ERROR: Failed to process page N]" in bytes.
MarkerBytes == 2 + 9 + 1 + 4 + 2

PlaceholderBytes == 8 + 23 + 1 + 1

\* The bytes a piece of the output file takes at least: a piece of text is
\* a character, a placeholder with a detail is longer than one without.
PieceBytes(tok) ==
    IF tok.k = "marker" THEN MarkerBytes
    ELSE IF tok.k = "error" THEN PlaceholderBytes
    ELSE 1

RECURSIVE FixedBytes(_)
FixedBytes(content) ==
    IF content = <<>> THEN 0 ELSE PieceBytes(Head(content)) + FixedBytes(Tail(content))

\* The text of a page and the message of an exception are of any length.
OpenLength(content) ==
    \E i \in 1..Len(content) :
        content[i].k = "char" \/ (content[i].k = "error" /\ content[i].s # "")

\* output_file.stat().st_size: what the pieces written take at least, and
\* with texts or messages among them also a size exactly at the threshold
\* and one just above it.
OutputSizes(content) ==
    IF OpenLength(content)
    THEN { n \in { FixedBytes(content), MinOutputBytes, MinOutputBytes + 1 } :
             n >= FixedBytes(content) }
    ELSE { FixedBytes(content) }

\* Variant: an output file of exactly the threshold size counts as well.
LargeEnoughInclusive(size) == size >= MinOutputBytes

\* output_file.stat().st_size > 100
LargeEnough(size) == size > MinOutputBytes

\* main(), direct mode: process_pdf has returned for the PDF; the output
\* file is looked at and the PDF counted, then the next PDF is taken.
CountPdf ==
    /\ ~batch
    /\ pc = "done"
    /\ overall_stats.idx < overall_stats.total_pdfs
    /\ \E size \in OutputSizes(out_file.v), raises \in BOOLEAN :
         LET counted == IF ~raises /\ out_file.some /\ LargeEnough(size)
                        THEN "processed_pdfs" ELSE "failed_pdfs"
             seen == [ exists |-> out_file.some, size |-> size, raised |-> raises,
                       total_pages |-> total_pages,
                       successful_pages |-> successful_pages,
                       counted |-> counted ] IN
         overall_stats' = [ overall_stats EXCEPT ![counted] = @ + 1,
                                                 !.idx = @ + 1,
                                                 !.log = Append(@, seen) ]
    /\ pc' = IF overall_stats.idx + 1 < overall_stats.total_pdfs THEN "start" ELSE "summary"
    /\ out_file' = None
    /\ total_pages' = 0
    /\ page_idx' = 0
    /\ successful_pages' = 0
    /\ failed_pages' = <<>>
    /\ hist' = NewHist
    /\ UNCHANGED << mode, prompt_ok, all_text, result, pageVars, pdf_exists, batch,
                    total_rows, row_idx, df_ocr, stats, saves, row_log, cell_writes,
                    pdf_path, row_in, api_key, sumpass, lookup, audio, columns >>

MainNext ==
    \/ Main
    \/ SheetNext
    \/ CountPdf

\* A run of the program from main().
SpecMain == MainInit /\ [][MainNext]_vars

RowsNext ==
    \/ ReadWideSheet
    \/ ProcessRow
    \/ SaveSheet

\* The spreadsheet pass with each call of process_pdf_to_text taken by its result.
SpecRows == SheetInit /\ [][RowsNext]_vars

StagesNext ==
    \/ SheetNext
    \/ ReadSummarySheet
    \/ SummaryRow
    \/ SaveSummarySheet

\* The OCR stage's pass over a sheet, then the summary stage's pass over the
\* sheet it saved.
SpecStages == SheetInit /\ [][StagesNext]_vars

\* The program keeps running: no call blocks for ever (time.sleep and the
\* service calls return), so a step that can be taken is taken.
SpecLive == Init /\ [][Next]_vars /\ WF_vars(Next)

(***************************************************************************)
(* Audio transcription: transcribe_all_audio_files with transcribe_audio,  *)
(* split_audio_file, cleanup_temp_segments and save_transcription.         *)
(***************************************************************************)
\* The audio file f of the folder, and segment i cut from it into the
\* temporary directory.
OriginalFile(f) == [kind |-> "audio", file |-> f, idx |-> 0]

SegmentFile(f, i) == [kind |-> "segment", file |-> f, idx |-> i]

\* What transcribe_audio returns: None (the file could not be read, or the
\* call or response.text.strip() raised), an empty string, or text.
Transcriptions == { None, Some(<<>>), Some(<< "a" >>) }

\* "[Segment {idx}]"
SegmentHeader(idx) == [k |-> "segment", n |-> idx, s |-> ""]

\* "TRANSCRIPTION FAILED"
TranscriptionFailed == [k |-> "failed", n |-> 0, s |-> "TRANSCRIPTION FAILED"]

Newline == [k |-> "newline", n |-> 0, s |-> ""]

\* The string appended to combined_transcription_parts for segment idx of
\* count segments.
SegmentPart(idx, count, seg_transcription) ==
    IF Truthy(seg_transcription)
    THEN (IF count > 1 THEN << SegmentHeader(idx) >> ELSE <<>>)
         \o << Newline >> \o Chars(seg_transcription.v) \o << Newline >>
    ELSE << SegmentHeader(idx), Ch(" "), TranscriptionFailed >>

RECURSIVE JoinLines(_)
\* "\n".join(list)
JoinLines(l) ==
    IF l = <<>> THEN <<>>
    ELSE IF Len(l) = 1 THEN Head(l)
    ELSE Head(l) \o << Newline >> \o JoinLines(Tail(l))

IsBlankPiece(tok) == tok = Newline \/ IsSpace(tok)

RECURSIVE LStripLines(_)
LStripLines(c) == IF c # <<>> /\ IsBlankPiece(Head(c)) THEN LStripLines(Tail(c)) ELSE c

RECURSIVE RStripLines(_)
RStripLines(c) ==
    IF c # <<>> /\ IsBlankPiece(c[Len(c)])
    THEN RStripLines(SubSeq(c, 1, Len(c) - 1))
    ELSE c

\* "\n".join(combined_transcription_parts).strip()
Combined(parts) == RStripLines(LStripLines(JoinLines(parts)))

\* Variant: the segments are removed whenever the file was split.
CleanupDueWhenSplit(ok, paths) == Len(paths) > 1

\* if all_segments_successful and len(segment_paths) > 1
CleanupDue(ok, paths) == ok /\ Len(paths) > 1

\* cleanup_temp_segments: the files it unlinks when the first n unlink calls
\* succeed (the except clause ends it at the first that raises).
CleanedUp(original_audio_file, paths, n) ==
    IF Len(paths) = 1 /\ paths[1] = original_audio_file
    THEN {}
    ELSE { paths[i] : i \in { j \in 1..n : paths[j] # original_audio_file } }

\* if transcription:
WorthSaving(transcription) == Truthy(transcription)

\* How the file ended: what was counted, with what the properties need of
\* the locals at that moment.
FileDone(a, counted, raised) ==
    [ counted |-> counted, raised |-> raised, split |-> a.split_segments,
      segments |-> Len(a.segment_paths), outcomes |-> a.outcomes,
      transcription |-> a.transcription,
      all_segments_successful |-> a.all_segments_successful ]

\* The end of one iteration of the file loop.
NextFile(a, counted, raised) ==
    [ a EXCEPT !.pc = "file",
               !.file_idx = @ + 1,
               !.successful_transcriptions = IF counted = "successful" THEN @ + 1 ELSE @,
               !.failed_transcriptions = IF counted = "failed" THEN @ + 1 ELSE @,
               !.done = Append(@, FileDone(a, counted, raised)),
               !.segment_paths = <<>>,
               !.combined_transcription_parts = <<>>,
               !.all_segments_successful = TRUE,
               !.outcomes = <<>>,
               !.transcription = None ]

audioOnly ==
    << pc, mode, prompt_ok, total_pages, page_idx, all_text, out_file,
       successful_pages, failed_pages, result, pageVars, hist, pdf_exists,
       batch, total_rows, row_idx, df_ocr, stats, saves, row_log,
       cell_writes, pdf_path, row_in, api_key, sumpass, lookup, overall_stats,
       columns >>

\* get_audio_files and the early return when there is none.
GetAudioFiles ==
    /\ pc = "audio"
    /\ audio.pc = ""
    /\ \E n \in 0..MaxAudioFiles, split \in BOOLEAN :
         audio' = [ NoAudio EXCEPT !.pc = IF n = 0 THEN "return" ELSE "file",
                                   !.audio_files = n,
                                   !.split_segments = split,
                                   !.disk = { OriginalFile(f) : f \in 1..n } ]
    /\ UNCHANGED audioOnly

\* Head of the file loop: split_audio_file when splitting is asked for.  It
\* returns the original alone, or the m segments it has written.
BeginFile ==
    /\ audio.pc = "file"
    /\ audio.file_idx < audio.audio_files
    /\ LET f == audio.file_idx + 1 IN
       IF audio.split_segments
       THEN \E m \in 1..MaxSegments :
              LET paths == IF m = 1 THEN << OriginalFile(f) >>
                           ELSE [i \in 1..m |-> SegmentFile(f, i)] IN
              audio' = [ audio EXCEPT !.pc = "segment",
                                      !.segment_paths = paths,
                                      !.disk = @ \cup { paths[i] : i \in 1..m } ]
       ELSE audio' = [ audio EXCEPT !.pc = "whole" ]
    /\ UNCHANGED audioOnly

\* One iteration of the segment loop: transcribe_audio and the part appended.
TranscribeSegment ==
    /\ audio.pc = "segment"
    /\ Len(audio.combined_transcription_parts) < Len(audio.segment_paths)
    /\ \E seg_transcription \in Transcriptions :
         LET idx == Len(audio.combined_transcription_parts) + 1 IN
         audio' = [ audio EXCEPT
                      !.combined_transcription_parts =
                          Append(@, SegmentPart(idx, Len(audio.segment_paths),
                                                seg_transcription)),
                      !.all_segments_successful = @ /\ Truthy(seg_transcription),
                      !.outcomes = Append(@, Truthy(seg_transcription)) ]
    /\ UNCHANGED audioOnly

\* After the segment loop: the parts are combined and the segments cleaned up.
CombineSegments ==
    /\ audio.pc = "segment"
    /\ Len(audio.combined_transcription_parts) = Len(audio.segment_paths)
    /\ \E n \in 0..Len(audio.segment_paths) :
         audio' = [ audio EXCEPT
                      !.pc = "save",
                      !.transcription = Some(Combined(audio.combined_transcription_parts)),
                      !.disk = IF CleanupDue(audio.all_segments_successful,
                                             audio.segment_paths)
                               THEN @ \ CleanedUp(OriginalFile(audio.file_idx + 1),
                                                  audio.segment_paths, n)
                               ELSE @ ]
    /\ UNCHANGED audioOnly

\* Without splitting: the whole file goes to transcribe_audio.
TranscribeWhole ==
    /\ audio.pc = "whole"
    /\ \E transcription \in Transcriptions :
         audio' = [ audio EXCEPT !.pc = "save", !.transcription = transcription ]
    /\ UNCHANGED audioOnly

\* save_transcription and the counters.
SaveTranscription ==
    /\ audio.pc = "save"
    /\ \E output_file \in BOOLEAN :
         audio' = IF WorthSaving(audio.transcription) /\ output_file
                  THEN NextFile(audio, "successful", FALSE)
                  ELSE NextFile(audio, "failed", FALSE)
    /\ UNCHANGED audioOnly

\* Something in the try block raised: the except clause of the file loop.
FileRaises ==
    /\ audio.pc \in {"segment", "whole", "save"}
    /\ audio' = NextFile(audio, "failed", TRUE)
    /\ UNCHANGED audioOnly

\* After the last file: the summary is printed.
AudioSummary ==
    /\ audio.pc = "file"
    /\ audio.file_idx = audio.audio_files
    /\ audio' = [ audio EXCEPT !.pc = "summary" ]
    /\ UNCHANGED audioOnly

AudioInit ==
    /\ Blank
    /\ prompt_ok = TRUE
    /\ pc = "audio"
    /\ batch = FALSE
    /\ api_key = TRUE
    /\ mode = "to_text"
    /\ pdf_exists = FALSE

AudioNext ==
    \/ GetAudioFiles
    \/ BeginFile
    \/ TranscribeSegment
    \/ CombineSegments
    \/ TranscribeWhole
    \/ SaveTranscription
    \/ FileRaises
    \/ AudioSummary

\* A call of transcribe_all_audio_files.
SpecAudio == AudioInit /\ [][AudioNext]_vars

(***************************************************************************)
(* Views of the state used by the properties.                              *)
(***************************************************************************)
\* The text assembled so far, whichever the entry point.
Output == IF mode = "to_text" THEN Join(all_text) ELSE out_file.v

\* The tokens of kind k for page n in a text.
TokensOf(txt, k, n) == { i \in 1..Len(txt) : txt[i].k = k /\ txt[i].n = n }

\* A page function is executing, or has returned and the page is not yet emitted.
InProgress == pc \in {"inline", "alt", "upload", "poll", "generate", "emit"}

\* process_pdf_page_inline is executing.
InlineRunning == pc = "inline" \/ (pc = "alt" /\ pdf_content = "part")

\* The staged tier has been entered for the current page.
StagedEntered == pc \in {"upload", "poll", "generate"} \/ hist.uploads >= 1

\* The rows of the sheet counted in class c so far.
RowsIn(c) == { r \in 1..Len(row_log) : row_log[r] = c }

IsErrorCell(cell) == Len(cell) = 1 /\ cell[1].k = "error" /\ cell[1].n = 0

(***************************************************************************)
(* C1.  In process_with_spreadsheet a failure of the per-row pipeline      *)
(* (process_pdf_to_text raises, or returns None/empty) is recorded on that *)
(* row only, as an [ERROR: ...] cell and one increment of failed; every    *)
(* cell is written once when its row is handled and never otherwise, and   *)
(* the pass reaches its end only after every row has been classified.      *)
(***************************************************************************)
C1_RowFailureIsolated ==
    batch =>
      /\ Len(row_log) = row_idx
      /\ stats.failed = Cardinality(RowsIn("failed"))
      /\ \A r \in RowsIn("failed") : IsErrorCell(df_ocr[r])
      /\ \A r \in 1..Len(cell_writes) :
           cell_writes[r] = IF r <= row_idx THEN 1 ELSE 0
      /\ (pc = "exit" /\ Len(df_ocr) = total_rows) => row_idx = total_rows

\* A pass of two rows has ended: row 1 failed because process_pdf_to_text
\* returned nothing, row 2 was processed after it and the sheet was saved.
C1_Witness ==
    /\ batch
    /\ pc = "exit"
    /\ saves = 1
    /\ row_log = << "failed", "processed" >>
    /\ df_ocr[1] = ErrorCell("OCR processing failed")

(***************************************************************************)
(* C2.  An error raised while extracting or recognising page k is caught   *)
(* within the page loop: page k becomes a failed page with an [ERROR: ...] *)
(* placeholder in the output, the pages after it are still processed, and  *)
(* the document function ends with every page accounted for.               *)
(***************************************************************************)
C2_PageErrorContained ==
    ~batch =>
      /\ successful_pages + Len(failed_pages) = page_idx
      /\ \A i \in 1..Len(failed_pages) :
           /\ failed_pages[i] \in 1..page_idx
           /\ TokensOf(Output, "error", failed_pages[i]) # {}
      /\ (pc \in {"loop", "done"} /\ page_idx >= 1
            /\ (hist.raised \/ ~hist.gotText.some))
           => /\ failed_pages # <<>>
              /\ failed_pages[Len(failed_pages)] = page_idx
      /\ pc = "done" => page_idx = total_pages

\* A two-page document has ended: page 1 raised in extraction and has its
\* placeholder, page 2 was recognised after it.
C2_Witness ==
    /\ ~batch
    /\ pc = "done"
    /\ total_pages = 2
    /\ failed_pages = << 1 >>
    /\ successful_pages = 1
    /\ Output[1] = ErrorPlaceholder(1, "extract error")

(***************************************************************************)
(* C3.  For every page the inline submission is attempted exactly when the *)
(* page is smaller than 20 MB, at most once and before any staged attempt; *)
(* the staged tier is entered exactly when inline was skipped or returned  *)
(* no text.                                                                *)
(***************************************************************************)
C3_InlineFirstThenStaged ==
    InProgress =>
      /\ hist.inline_calls <= 1
      /\ (pc = "inline" \/ hist.inline_calls = 1) <=> page_size < 20 * 1024 * 1024
      /\ InlineRunning => hist.uploads = 0 /\ pc # "upload"
      /\ ~InlineRunning =>
           (StagedEntered <=>
              \/ hist.inline_calls = 0
              \/ hist.inline_calls = 1 /\ hist.strategyUsed.tier # "Inline")

\* A page below the limit whose inline call returned no text is in its
\* first staged attempt.
C3_Witness ==
    /\ pc = "poll"
    /\ page_size < 20 * 1024 * 1024
    /\ hist.inline_calls = 1
    /\ hist.uploads = 1
    /\ hist.lastErr = "Empty text response from Gemini"

\* The failure kinds of the design, by the message the code raises.
ErrorKind(msg) ==
    CASE msg = "api error" -> "Transient"
      [] msg \in {"No text content in Gemini response",
                  "Empty text response from Gemini"} -> "Empty"
      [] msg = "File processing timed out" -> "Timeout"
      [] msg = "All copyright retry strategies failed" -> "ContentPolicyBlocked"
      [] msg = "" -> "None"
      [] OTHER -> "Fatal"

\* A page has just been emitted and hist still describes it.
PageJustEmitted == pc \in {"loop", "done"} /\ page_idx >= 1

\* The staged tier has made three attempts and each ended in an API error.
ThreeTransients ==
    /\ hist.allTransient
    /\ hist.uploads = 3
    /\ ~hist.gotText.some
    /\ pc \notin {"poll", "generate", "alt"}

(***************************************************************************)
(* C4 as stated.  In the staged tier a new attempt is made only after a    *)
(* Transient failure: an attempt that ended Empty, Fatal or in a Timeout   *)
(* is never followed by another staged attempt.                            *)
(***************************************************************************)
C4_Original ==
    (pc = "upload" /\ hist.uploads >= 1) => ErrorKind(hist.lastErr) = "Transient"

(***************************************************************************)
(* C4 as amended.  A failed staged attempt is followed by a new attempt    *)
(* whatever the kind of its failure, as long as fewer than 3 attempts have *)
(* been made: every retry follows a failure and one backoff sleep, and the *)
(* staged tier gives a page up only after its third attempt.               *)
(***************************************************************************)
C4_RetryAfterAnyFailure ==
    /\ hist.uploads <= 3
    /\ (pc = "upload" /\ hist.uploads >= 1) =>
         /\ hist.uploads < 3
         /\ hist.lastErr # ""
         /\ Len(hist.delays) = hist.uploads
    /\ (pc = "emit" /\ ~text.some) => hist.uploads = 3

\* A second staged attempt is about to start after an Empty response.
C4_Witness ==
    /\ pc = "upload"
    /\ hist.uploads = 1
    /\ ErrorKind(hist.lastErr) = "Empty"

(***************************************************************************)
(* C5 as stated.  After three Transient failures of the staged attempt in  *)
(* a row, three backoff sleeps of 2, 4 and 8 seconds have been made and a  *)
(* fourth staged attempt follows.                                          *)
(***************************************************************************)
C5_Original ==
    ThreeTransients => hist.delays = << 2, 4, 8 >> /\ pc = "upload"

(***************************************************************************)
(* C5 as amended.  With max_retries = 3 and base_delay = 2 the staged tier *)
(* makes at most three attempts: Transient failures of the first and the   *)
(* second attempt are followed by sleeps of 2 and 4 seconds, a third       *)
(* attempt that succeeds ends the page as a success after exactly these    *)
(* two sleeps, and a third Transient failure is followed by no sleep and   *)
(* no fourth attempt: the page fails.                                      *)
(***************************************************************************)
C5_BackoffWithinThreeAttempts ==
    /\ (hist.allTransient /\ pc = "upload" /\ hist.uploads = 1) => hist.delays = << 2 >>
    /\ (hist.allTransient /\ pc = "upload" /\ hist.uploads = 2) => hist.delays = << 2, 4 >>
    /\ (hist.allTransient /\ hist.uploads = 3 /\ hist.gotText.some) =>
         /\ hist.delays = << 2, 4 >>
         /\ pc = "emit" => text = hist.gotText
    /\ ThreeTransients =>
         /\ hist.delays = << 2, 4 >>
         /\ pc # "upload"
         /\ pc = "emit" => ~text.some
         /\ PageJustEmitted => failed_pages[Len(failed_pages)] = page_idx

\* Two Transient failures, sleeps of 2 and 4, and the third attempt returned text.
C5_Witness ==
    /\ pc = "emit"
    /\ hist.allTransient
    /\ hist.lastErr = "api error"
    /\ hist.uploads = 3
    /\ hist.delays = << 2, 4 >>
    /\ hist.strategyUsed = [tier |-> "Staged", alt |-> 0]
    /\ text.some

(***************************************************************************)
(* C6.  After a content-policy block of a primary call the alternatives    *)
(* are submitted in list order against the content object of the blocked   *)
(* call; alternative k+1 is submitted only after alternatives 1..k of this *)
(* run returned no text, and the first one that returns text ends the run  *)
(* with that text.                                                         *)
(***************************************************************************)
C6_AlternativesInOrder ==
    /\ pc = "alt" =>
         /\ alt_i \in 1..3
         /\ pdf_content = hist.blockContent
         /\ ~hist.gotText.some
         /\ \A k \in 1..3 :
              hist.alt_calls[k] = IF k < alt_i THEN hist.blocks ELSE hist.blocks - 1
    /\ (hist.blocks >= 1 /\ hist.alt_calls[1] = hist.blocks) =>
         hist.altContent = hist.blockContent
    /\ hist.strategyUsed.alt >= 1 =>
         /\ \A k \in 1..3 :
              hist.alt_calls[k] =
                 IF k <= hist.strategyUsed.alt THEN hist.blocks ELSE hist.blocks - 1
         /\ pc = "emit" => text = hist.gotText

\* The staged call was blocked, alternative 1 gave nothing, alternative 2
\* returned text and alternative 3 was not submitted.
C6_Witness ==
    /\ pc = "emit"
    /\ hist.strategyUsed = [tier |-> "Staged", alt |-> 2]
    /\ hist.alt_calls = << 1, 1, 0 >>
    /\ hist.blockContent = "file"
    /\ text = Some(<< "a" >>)

(***************************************************************************)
(* C7 as stated.  Each alternative instruction is submitted at most once   *)
(* during the processing of a page.                                        *)
(***************************************************************************)
C7_Original == \A k \in 1..3 : hist.alt_calls[k] <= 1

(***************************************************************************)
(* C7 as amended.  Each alternative instruction is submitted at most once  *)
(* per content-policy block of a primary call; the inline call and each of *)
(* the three staged attempts can be blocked, so an alternative is          *)
(* submitted at most four times for one page.                              *)
(***************************************************************************)
C7_OncePerBlock ==
    /\ \A k \in 1..3 : hist.alt_calls[k] <= hist.blocks
    /\ hist.blocks <= hist.primary_calls
    /\ hist.blocks <= 4

\* The list was run to its end four times for one page.
C7_Witness ==
    /\ hist.exhausted
    /\ hist.alt_calls = << 4, 4, 4 >>
    /\ pc = "emit"

(***************************************************************************)
(* C8.  _try_alternative_prompts runs only right after a primary response  *)
(* with no content parts and finish reason RECITATION; no other failure of *)
(* the primary call leads to an alternative instruction.                   *)
(***************************************************************************)
C8_AlternativesOnlyAfterBlock ==
    pc = "alt" => hist.lastPrimary = [kind |-> "nocontent", finish |-> "RECITATION"]

\* The second staged attempt was blocked and its alternatives are starting.
C8_Witness ==
    /\ pc = "alt"
    /\ alt_i = 1
    /\ tier = "staged"
    /\ hist.uploads = 2

(***************************************************************************)
(* C9 as amended.  The first call of any tier that returns non-empty       *)
(* (normalised) text ends the page: the program goes straight to emitting  *)
(* the page with exactly that text and the page counts as a success.       *)
(***************************************************************************)
C9_FirstTextEndsPage ==
    /\ (hist.gotText.some /\ InProgress) => pc = "emit" /\ text = hist.gotText
    /\ (hist.gotText.some /\ PageJustEmitted) =>
         LET t == Chars(hist.gotText.v)
             o == Output
         IN /\ Len(o) >= Len(t)
            /\ SubSeq(o, Len(o) - Len(t) + 1, Len(o)) = t
            /\ \A i \in 1..Len(failed_pages) : failed_pages[i] # page_idx
            /\ TokensOf(o, "error", page_idx) = {}

(***************************************************************************)
(* C9 as stated.  ... and which tier produced the text is recorded with    *)
(* the outcome: two pages with the same outcome come from the same tier.   *)
(***************************************************************************)
C9_Original ==
    /\ C9_FirstTextEndsPage
    /\ (pc = "emit" /\ text.some /\ hist.prevText = text) =>
         hist.prevTier = hist.strategyUsed.tier

\* Page 1 got its text from an alternative instruction of the inline tier.
C9_Witness ==
    /\ pc = "loop"
    /\ page_idx = 1
    /\ hist.strategyUsed = [tier |-> "Inline", alt |-> 1]
    /\ Output = Chars(<< "b", " ", "b" >>)

(***************************************************************************)
(* C10 as stated.  The placeholder of a page that ended Failed carries the *)
(* last failure observed for that page.                                    *)
(***************************************************************************)
C10_Original ==
    (PageJustEmitted /\ ~hist.gotText.some) =>
      \A i \in TokensOf(Output, "error", page_idx) : Output[i].s = hist.lastErr

(***************************************************************************)
(* C10 as amended.  A page for which no tier returned text ends Failed     *)
(* with the fixed placeholder "[ERROR: Failed to process page k]", which   *)
(* names the page and carries no detail of the service's failures; only    *)
(* when extract_pdf_page raised does the placeholder carry a detail, the   *)
(* message of that exception.                                              *)
(***************************************************************************)
C10_GenericPlaceholder ==
    (PageJustEmitted /\ ~hist.gotText.some) =>
      /\ failed_pages # <<>>
      /\ failed_pages[Len(failed_pages)] = page_idx
      /\ TokensOf(Output, "error", page_idx) # {}
      /\ \A i \in TokensOf(Output, "error", page_idx) :
           Output[i].s = IF hist.raised THEN "extract error" ELSE ""

\* A page failed after the staged tier timed out waiting for the file.
C10_Witness ==
    /\ PageJustEmitted
    /\ ~hist.raised
    /\ hist.lastErr = "File processing timed out"
    /\ failed_pages # <<>>
    /\ failed_pages[Len(failed_pages)] = page_idx

\* A page function is executing: the page has no outcome yet.
PageRunning == pc \in {"inline", "alt", "upload", "poll", "generate"}

(***************************************************************************)
(* C11.  Whatever the service does, the per-page strategy makes at most 1  *)
(* inline primary call, at most 3 staged attempts, at most 2 backoff       *)
(* sleeps and at most 60 readiness polls per staged attempt, and a page    *)
(* whose processing has begun always reaches its outcome (text or None):   *)
(* no failure kind is retried for ever.                                    *)
(***************************************************************************)
C11_PageTerminates ==
    /\ [](/\ hist.inline_calls <= 1
          /\ hist.uploads <= 3
          /\ Len(hist.delays) <= 2
          /\ hist.polls <= 60
          /\ hist.primary_calls <= 4)
    /\ (PageRunning ~> pc = "emit")

\* The third staged attempt saw the file in PROCESSING for 60 polls and the
\* page is about to be emitted as failed.
C11_Witness ==
    /\ pc = "emit"
    /\ ~text.some
    /\ hist.inline_calls = 1
    /\ hist.uploads = 3
    /\ hist.delays = << 2, 4 >>
    /\ hist.polls = 60
    /\ hist.lastState = "PROCESSING"
    /\ hist.lastErr = "File processing timed out"

\* The page numbers of the markers standing in a text, in order.
MarkerNumbers(txt) ==
    LET m == SelectSeq(txt, LAMBDA t : t.k = "marker")
    IN [i \in 1..Len(m) |-> m[i].n]

\* A document of at least one page has been processed to its last page.
DocumentDone == pc = "done" /\ total_pages >= 1 /\ page_idx = total_pages

(***************************************************************************)
(* C12.  For a document of N >= 1 pages, whatever the outcome of each      *)
(* page, the assembled text contains exactly N-1 page markers, those of    *)
(* pages 2..N in increasing order, and none for page 1.                    *)
(***************************************************************************)
C12_MarkersCountPages ==
    DocumentDone =>
      MarkerNumbers(Output) = [i \in 1..(total_pages - 1) |-> i + 1]

\* text_1, then for i = 2..n the marker of page i and text_i.
RECURSIVE MarkedTexts(_, _)
MarkedTexts(texts, n) ==
    IF n = 0 THEN <<>>
    ELSE IF n = 1 THEN Chars(texts[1].v)
    ELSE MarkedTexts(texts, n - 1) \o <<PageMarker(n)>> \o Chars(texts[n].v)

\* Every page of the finished document returned text.
AllPagesSucceeded ==
    /\ DocumentDone
    /\ Len(hist.texts) = total_pages
    /\ \A i \in 1..total_pages : hist.texts[i].some

(***************************************************************************)
(* C13.  If every page of an N-page document succeeds, successful_pages    *)
(* equals total_pages, failed_pages is empty, and the assembled text is    *)
(* text_1 followed, for i = 2..N in order, by the marker of page i and     *)
(* text_i, with no [ERROR: ...] placeholder in it.                         *)
(***************************************************************************)
C13_AllSucceedAssembly ==
    AllPagesSucceeded =>
      /\ successful_pages = total_pages
      /\ failed_pages = <<>>
      /\ Output = MarkedTexts(hist.texts, total_pages)
      /\ \A i \in 1..Len(Output) : Output[i].k # "error"
      /\ (mode = "to_text") => result = Some(Output)

\* Two pages, both recognised: "a", the marker of page 2, "b b".
C13_Witness ==
    /\ AllPagesSucceeded
    /\ total_pages = 2
    /\ hist.texts = << Some(<< "a" >>), Some(<< "b", " ", "b" >>) >>
    /\ Output = << Ch("a"), PageMarker(2), Ch("b"), Ch(" "), Ch("b") >>

\* A token without the detail a placeholder may carry.
WithoutDetail(tok) == IF tok.k = "error" THEN [tok EXCEPT !.s = ""] ELSE tok

\* One segment per page 1..n in page order: the marker of the page when it
\* is not the first, then its text, or its placeholder when it has none.
RECURSIVE PerPageSegments(_, _)
PerPageSegments(texts, n) ==
    IF n = 0 THEN <<>>
    ELSE PerPageSegments(texts, n - 1)
         \o (IF n > 1 THEN <<PageMarker(n)>> ELSE <<>>)
         \o (IF texts[n].some THEN Chars(texts[n].v) ELSE << [k |-> "error", n |-> n, s |-> ""] >>)

\* The page loop stands between two pages, or the document is finished.
BetweenPages == pc \in {"loop", "done"} /\ total_pages >= 1

(***************************************************************************)
(* C14.  Every page handled so far, successful or failed, has contributed  *)
(* exactly one segment to the assembled text, in page order; the segment   *)
(* of a failed page is an [ERROR: ...] placeholder that names that page    *)
(* and stands at that page's position, after its marker when the page is   *)
(* not the first.                                                          *)
(***************************************************************************)
C14_OneSegmentPerPage ==
    BetweenPages =>
      /\ Len(hist.texts) = page_idx
      /\ (mode = "to_text") => Len(all_text) = page_idx
      /\ [i \in 1..Len(Output) |-> WithoutDetail(Output[i])]
           = PerPageSegments(hist.texts, page_idx)
      /\ \A i \in 1..page_idx :
           (~hist.texts[i].some) <=> (\E j \in 1..Len(failed_pages) : failed_pages[j] = i)

\* Page 1 recognised, page 2 failed: its placeholder follows the marker of page 2.
C14_Witness ==
    /\ pc = "done"
    /\ total_pages = 2
    /\ hist.texts = << Some(<< "a" >>), None >>
    /\ failed_pages = << 2 >>
    /\ Output = << Ch("a"), PageMarker(2), ErrorPlaceholder(2, "") >>

\* The inline attempt of the current page gave no text and its first staged
\* attempt returned text.
StagedFirstTry ==
    /\ hist.inline_calls = 1
    /\ hist.uploads = 1
    /\ hist.gotText.some

(***************************************************************************)
(* C15.  If the inline attempt of a page fails and its first staged        *)
(* attempt returns non-empty text, the page is a success of the staged     *)
(* tier after exactly one upload and no backoff sleep, and its segment in  *)
(* the assembled document is the staged text, with nothing of the inline   *)
(* failure in it.                                                          *)
(***************************************************************************)
C15_StagedAfterInlineFailure ==
    /\ (StagedFirstTry /\ pc = "emit") =>
         /\ hist.strategyUsed.tier = "Staged"
         /\ hist.delays = <<>>
         /\ text = hist.gotText
         /\ text.v # <<>>
    /\ (StagedFirstTry /\ PageJustEmitted) =>
         /\ hist.texts[page_idx] = hist.gotText
         /\ \A j \in 1..Len(failed_pages) : failed_pages[j] # page_idx
         /\ [i \in 1..Len(Output) |-> WithoutDetail(Output[i])]
              = PerPageSegments(hist.texts, page_idx)

\* Page 1: inline answered with empty text, the first upload gave "a".
C15_Witness ==
    /\ PageJustEmitted
    /\ page_idx = 1
    /\ StagedFirstTry
    /\ hist.lastErr = "Empty text response from Gemini"
    /\ hist.strategyUsed = [tier |-> "Staged", alt |-> 0]
    /\ successful_pages = 1
    /\ Output = << [k |-> "char", n |-> 0, s |-> "a"] >>

(***************************************************************************)
(* C16 as amended.  If the primary instruction and alternative 1 are       *)
(* answered with a content-policy block and alternative 2 with non-empty   *)
(* text, the page is a success whose text is that of alternative 2 and     *)
(* alternative 3 is not submitted.  The page functions return the text     *)
(* alone; the alternative used is named only by the message printed.       *)
(***************************************************************************)
C16_SecondAlternativeWins ==
    /\ (hist.strategyUsed.alt = 2 /\ InProgress) =>
         /\ pc = "emit"
         /\ text = hist.gotText
         /\ text.v # <<>>
         /\ hist.blocks >= 1
         /\ hist.alt_calls[1] = hist.blocks
         /\ hist.alt_calls[2] = hist.blocks
         /\ hist.alt_calls[3] = hist.blocks - 1
         /\ hist.printed = [msg |-> "complete (using", using |-> 2]
    /\ (hist.strategyUsed.alt = 2 /\ PageJustEmitted) =>
         /\ hist.texts[page_idx] = hist.gotText
         /\ \A j \in 1..Len(failed_pages) : failed_pages[j] # page_idx

(***************************************************************************)
(* C16 as stated.  ... and the outcome identifies alternative 2 as the     *)
(* strategy used: a page with the same outcome was produced by             *)
(* alternative 2 as well.                                                  *)
(***************************************************************************)
C16_Original ==
    /\ C16_SecondAlternativeWins
    /\ (pc = "emit" /\ hist.strategyUsed.alt = 2 /\ hist.prevText = text) =>
         hist.prevAlt = 2

\* The inline call and alternative 1 were blocked, alternative 2 returned "a".
C16_Witness ==
    /\ pc = "emit"
    /\ hist.strategyUsed = [tier |-> "Inline", alt |-> 2]
    /\ hist.lastErr = "alternative blocked"
    /\ hist.blocks = 1
    /\ hist.alt_calls = << 1, 1, 0 >>
    /\ text = Some(<< "a" >>)

\* The class a row belongs to by what it gave the loop.
ClassOf(input) ==
    IF input.filename \in {"nan", "blank"} THEN "skipped_empty"
    ELSE IF ~input.found THEN "skipped_missing"
    ELSE IF input.ended = "text" THEN "processed"
    ELSE "failed"

RowClasses == {"processed", "skipped_empty", "skipped_missing", "failed"}

\* Five rows handled: row 2 blank, row 3 names a file that is not there,
\* rows 1, 4 and 5 recognised.
FiveRowScenario ==
    /\ total_rows = 5
    /\ row_idx = 5
    /\ row_in[2].filename = "blank"
    /\ row_in[3] = [filename |-> "name", found |-> FALSE, ended |-> ""]
    /\ \A r \in {1, 4, 5} : row_in[r] = [filename |-> "name", found |-> TRUE, ended |-> "text"]

(***************************************************************************)
(* C17.  In process_with_spreadsheet every row handled is counted in       *)
(* exactly one of processed, skipped_empty (blank or NaN filename),        *)
(* skipped_missing (file not found) and failed, the one its input calls    *)
(* for, and each counter is the number of rows in its class; for five rows *)
(* with row 2 blank, row 3 naming a missing file and rows 1, 4, 5          *)
(* recognised, the counters end as 3, 1, 1 and 0.                          *)
(***************************************************************************)
C17_RowsCountedByClass ==
    /\ Len(row_log) = row_idx
    /\ Len(row_in) = row_idx
    /\ \A r \in 1..row_idx : row_log[r] \in RowClasses /\ row_log[r] = ClassOf(row_in[r])
    /\ \A c \in RowClasses : stats[c] = Cardinality(RowsIn(c))
    /\ stats.processed + stats.skipped_empty + stats.skipped_missing + stats.failed = row_idx
    /\ FiveRowScenario =>
         stats = [processed |-> 3, skipped_empty |-> 1, skipped_missing |-> 1, failed |-> 0]

\* The five-row pass has ended and the sheet was saved.
C17_Witness ==
    /\ FiveRowScenario
    /\ pc = "exit"
    /\ saves = 1
    /\ row_log = << "processed", "skipped_empty", "skipped_missing", "processed", "processed" >>
    /\ stats.processed = 3

\* This step handles a row as skipped.
SkipsRow ==
    /\ row_idx' = row_idx + 1
    /\ Len(row_log') = row_idx'
    /\ row_log'[row_idx'] \in {"skipped_empty", "skipped_missing"}

(***************************************************************************)
(* C18.  A row that is skipped (blank or NaN filename, or file not found)  *)
(* is handled in one step of the row loop: no page is extracted and no     *)
(* call of the recognition service (inline, upload, poll, generation) is   *)
(* made for it; the step writes the skip or error marker to that row's     *)
(* cell, increments the matching skip counter, and changes nothing else.   *)
(***************************************************************************)
C18_SkippedRowTouchesNothing ==
    [][ SkipsRow =>
          /\ pc = "rows" /\ pc' = "rows"
          /\ hist = NewHist /\ hist' = NewHist
          /\ UNCHANGED << total_pages, page_idx, all_text, out_file, successful_pages,
                          failed_pages, result, page_size, text, tier, attempt,
                          processing_attempts, alt_i, pdf_content, saves, total_rows,
                          pdf_exists, pdf_path >>
          /\ \A r \in 1..total_rows :
               IF r = row_idx'
               THEN /\ cell_writes'[r] = cell_writes[r] + 1
                    /\ df_ocr'[r] = IF row_log'[r] = "skipped_empty"
                                    THEN << [k |-> "skipped", n |-> 0, s |-> "No filename provided"] >>
                                    ELSE << [k |-> "error", n |-> 0, s |-> "File not found"] >>
               ELSE cell_writes'[r] = cell_writes[r] /\ df_ocr'[r] = df_ocr[r]
          /\ \A c \in RowClasses :
               stats'[c] = IF c = row_log'[row_idx'] THEN stats[c] + 1 ELSE stats[c]
      ]_vars

\* Row 1 was processed and row 2 was skipped for a missing file.
C18_Witness ==
    /\ batch
    /\ pc = "rows"
    /\ row_log = << "processed", "skipped_missing" >>
    /\ df_ocr[2] = << [k |-> "error", n |-> 0, s |-> "File not found"] >>
    /\ stats.skipped_missing = 1
    /\ hist = NewHist

(***************************************************************************)
(* C19.  In one pass of process_with_spreadsheet the spreadsheet file is   *)
(* written at most once, a pass that runs to its end has written it        *)
(* exactly once, and that write comes after every row has been classified: *)
(* while rows are being handled nothing has been written.                  *)
(***************************************************************************)
C19_SavedOnceAtEnd ==
    /\ saves <= 1
    /\ pc = "exit" => saves = 1
    /\ saves = 1 =>
         /\ pc = "exit"
         /\ row_idx = total_rows
         /\ Len(row_log) = total_rows
         /\ \A r \in 1..total_rows : cell_writes[r] = 1

\* Two rows were classified and the sheet was then written.
C19_Witness ==
    /\ pc = "exit"
    /\ saves = 1
    /\ total_rows = 2
    /\ row_log = << "skipped_empty", "processed" >>

(***************************************************************************)
(* C20.  If the API credential or the prompt template file is missing,     *)
(* the run stops before any batch item is processed: no page is extracted  *)
(* and no call of the recognition service, backoff sleep or result write   *)
(* is made.                                                                *)
(***************************************************************************)
C20_MissingConfigStopsRun ==
    (~api_key \/ ~prompt_ok) =>
      /\ ~InProgress
      /\ hist = NewHist
      /\ page_idx = 0
      /\ row_idx = 0
      /\ all_text = <<>>
      /\ out_file = None
      /\ saves = 0

\* all_text with its elements taken in the order p.
Reordered(p) == [i \in 1..Len(all_text) |-> all_text[p[i]]]

\* The segment page k gets from its outcome: its marker when it is not the
\* first page, then its text, or its placeholder when it has none.
SegmentOfPage(texts, k) ==
    (IF k > 1 THEN <<PageMarker(k)>> ELSE <<>>)
    \o (IF texts[k].some /\ Strip(texts[k].v) # <<>>
        THEN Chars(texts[k].v)
        ELSE << [k |-> "error", n |-> k, s |-> ""] >>)

RowsCounted(st) == st.processed + st.skipped_empty + st.skipped_missing + st.failed

\* The counters that differ between two readings of stats.
Changed(st, st2) ==
    { c \in {"processed", "skipped_empty", "skipped_missing", "failed"} : st2[c] # st[c] }

(***************************************************************************)
(* C22.  During a pass of process_with_spreadsheet no counter ever         *)
(* decreases; a step that handles a row increases exactly one of           *)
(* processed, skipped_empty, skipped_missing and failed, by exactly 1, and *)
(* any other step leaves all four alone; after every step their sum is the *)
(* number of rows handled so far, which is total_rows when the pass ends.  *)
(***************************************************************************)
C22_CountersStepByOne ==
    [][ /\ \A c \in {"processed", "skipped_empty", "skipped_missing", "failed"} :
             stats'[c] >= stats[c]
        /\ IF row_idx' = row_idx + 1
           THEN \E c \in {"processed", "skipped_empty", "skipped_missing", "failed"} :
                  /\ Changed(stats, stats') = {c}
                  /\ stats'[c] = stats[c] + 1
           ELSE /\ row_idx' = row_idx
                /\ Changed(stats, stats') = {}
        /\ RowsCounted(stats') = row_idx'
        /\ row_idx' <= total_rows'
        /\ (pc' = "exit") => RowsCounted(stats') = total_rows'
      ]_vars

\* A pass of two rows has ended: one row failed in recognition, one had no
\* filename.
C22_Witness ==
    /\ pc = "exit"
    /\ total_rows = 2
    /\ row_log = << "failed", "skipped_empty" >>
    /\ stats = [processed |-> 0, skipped_empty |-> 1, skipped_missing |-> 0, failed |-> 1]

\* Row r of the OCR stage: one assignment once handled, none before, and a
\* handled row keeps its cell.
OcrCellWrittenOnce(r) ==
    /\ (r <= row_idx) => (cell_writes[r] = 1 /\ df_ocr'[r] = df_ocr[r])
    /\ (r <= row_idx') => cell_writes'[r] = 1
    /\ (r > row_idx') => cell_writes'[r] = 0

\* The same for the two result cells of row r of the summary stage.
SummaryCellsWrittenOnce(r) ==
    /\ (r <= sumpass.row_idx) =>
         /\ sumpass'.Summary[r] = sumpass.Summary[r]
         /\ sumpass'.Keywords[r] = sumpass.Keywords[r]
    /\ (r <= sumpass'.row_idx) => sumpass'.writes[r] = [Summary |-> 1, Keywords |-> 1]
    /\ (r > sumpass'.row_idx) => sumpass'.writes[r] = [Summary |-> 0, Keywords |-> 0]

(***************************************************************************)
(* C23.  In one pass of process_with_spreadsheet, of the OCR stage and of  *)
(* the summary stage alike, the result cell of a row has been assigned     *)
(* exactly once when the row has been handled and not at all before, and   *)
(* no later step, the handling of a later row included, changes the cell   *)
(* of a row already handled.                                               *)
(***************************************************************************)
C23_CellWrittenOnce ==
    [][ /\ \A r \in 1..total_rows' : OcrCellWrittenOnce(r)
        /\ \A r \in 1..Len(sumpass'.writes) : SummaryCellsWrittenOnce(r)
        /\ row_idx' >= row_idx
        /\ sumpass'.row_idx >= sumpass.row_idx
      ]_vars

\* Both stages have handled two rows: the first recognised and summarised,
\* the second without its file and therefore skipped by the summary stage.
C23_Witness ==
    /\ sumpass.pc = "exit"
    /\ total_rows = 2
    /\ row_log = << "processed", "skipped_missing" >>
    /\ cell_writes = << 1, 1 >>
    /\ sumpass.log = << "processed", "skipped_error" >>
    /\ sumpass.Summary = << "cleaned_summary", "[SKIPPED: OCR failed]" >>
    /\ sumpass.writes = << [Summary |-> 1, Keywords |-> 1], [Summary |-> 1, Keywords |-> 1] >>

\* A document is open: between the existence check and the return of
\* process_pdf_to_text or process_pdf.
DocumentOpen == pc \in {"loop", "inline", "alt", "upload", "poll", "generate", "emit"}

\* The service calls, polls and sleeps made for the current page.
PageEffort(h) ==
    << h.inline_calls, h.uploads, h.primary_calls, h.alt_calls, h.delays, h.polls >>

\* Between h and h2 a service call, a poll or a sleep was made.
EffortMade(h, h2) ==
    \/ h2.inline_calls > h.inline_calls
    \/ h2.uploads > h.uploads
    \/ h2.primary_calls > h.primary_calls
    \/ h2.polls > h.polls
    \/ Len(h2.delays) > Len(h.delays)
    \/ \E i \in 1..NumAlternatives : h2.alt_calls[i] > h.alt_calls[i]

\* Pages 1..page_idx have their outcome and their segment in the output, and
\* no later page has either.
EarlierPagesEmitted ==
    /\ Len(hist.texts) = page_idx
    /\ (mode = "to_text") => Len(all_text) = page_idx
    /\ LET out == IF mode = "to_text" THEN Join(all_text) ELSE out_file.v IN
       [i \in 1..Len(out) |-> IF out[i].k = "error" THEN [out[i] EXCEPT !.s = ""] ELSE out[i]]
         = PerPageSegments(hist.texts, page_idx)

\* Rows 1..row_idx have been classified and their cells written, and no
\* later row has been touched.
EarlierRowsClassified ==
    /\ Len(row_log) = row_idx
    /\ Len(row_in) = row_idx
    /\ \A r \in 1..total_rows : cell_writes[r] = IF r <= row_idx THEN 1 ELSE 0
    /\ \A r \in 1..total_rows : (r > row_idx) => df_ocr[r] = <<>>

(***************************************************************************)
(* C24.  Processing is strictly sequential.  Every service call, poll,     *)
(* sleep and write made while a document is open is made for page          *)
(* page_idx + 1, at a time when each of the pages 1..page_idx has its      *)
(* final outcome and its segment in the output and no later page has       *)
(* anything; a page's segment is written in the step that ends the page.   *)
(* In a spreadsheet pass every step taken for a row's document is taken    *)
(* when all rows before it have been classified and no row after it has    *)
(* been touched, and a document starts with nothing done for it.           *)
(***************************************************************************)
C24_StrictlySequential ==
    [][ /\ DocumentOpen =>
             /\ EarlierPagesEmitted
             /\ page_idx' \in {page_idx, page_idx + 1}
             /\ (page_idx' = page_idx) =>
                  UNCHANGED << all_text, out_file, successful_pages, failed_pages >>
             /\ (page_idx' = page_idx + 1) =>
                  /\ pc' = "loop"
                  /\ Len(hist'.texts) = page_idx'
                  /\ (mode = "to_text") => Len(all_text') = page_idx'
             /\ EffortMade(hist, hist') =>
                  /\ pc \in {"inline", "alt", "upload", "poll", "generate"}
                  /\ page_idx' = page_idx
        /\ EffortMade(hist, hist') => DocumentOpen
        /\ (pc = "loop" /\ pc' \in {"inline", "upload"}) =>
             PageEffort(hist') = PageEffort(NewHist)
        /\ (batch /\ (DocumentOpen \/ pc \in {"start", "done"})) =>
             /\ EarlierRowsClassified
             /\ row_idx < total_rows
             /\ row_idx' \in {row_idx, row_idx + 1}
             /\ (row_idx' = row_idx + 1) => (pc = "done" /\ pc' = "rows")
        /\ (batch /\ pc' = "start") =>
             /\ pc = "rows"
             /\ hist' = NewHist
             /\ page_idx' = 0
             /\ all_text' = <<>>
      ]_vars

\* A one-row sheet: page 1 of its document failed and has its placeholder in
\* the output, page 2 is at its second upload after one backoff sleep.
C24_Witness ==
    /\ batch
    /\ total_rows = 1
    /\ row_idx = 0
    /\ pc = "upload"
    /\ page_idx = 1
    /\ total_pages = 2
    /\ hist.texts = << None >>
    /\ Len(all_text) = 1
    /\ hist.uploads = 1
    /\ hist.delays # <<>>

\* This step leaves _try_alternative_prompts with the list exhausted.
ExhaustsAlternatives == pc = "alt" /\ pc' # "alt" /\ ~hist'.gotText.some

\* C25 as stated: an exhausted alternative list ends the page as failed, and
\* no upload, primary call or backoff sleep follows it.
C25_Original ==
    [][ /\ ExhaustsAlternatives => (pc' = "emit" /\ hist'.delays = hist.delays)
        /\ (hist.exhausted /\ pc # "loop") =>
             /\ hist'.uploads = hist.uploads
             /\ hist'.primary_calls = hist.primary_calls
             /\ hist'.delays = hist.delays
      ]_vars

(***************************************************************************)
(* C25.  An alternative that returns text ends the page as a success with  *)
(* no further call.  An exhausted alternative list does not end the page   *)
(* unless it was run from the last staged attempt: run from the inline     *)
(* call it is followed by the staged tier (attempt 0, upload); run from    *)
(* staged attempt a < 2 it is followed by the backoff sleep of that        *)
(* attempt and a new upload for attempt a + 1; run from staged attempt 2   *)
(* it leaves the page without text and nothing more is done for the page.  *)
(***************************************************************************)
C25_EscalationThenNextTier ==
    [][ /\ ExhaustsAlternatives =>
             /\ alt_i = 3
             /\ hist'.exhausted
             /\ IF tier = "inline"
                THEN /\ pc' = "upload" /\ tier' = "staged" /\ attempt' = 0
                     /\ hist'.delays = hist.delays
                ELSE IF attempt < 2
                THEN /\ pc' = "upload" /\ tier' = "staged" /\ attempt' = attempt + 1
                     /\ hist'.delays = Append(hist.delays, 2 * (2 ^ attempt))
                ELSE /\ pc' = "emit" /\ text' = None
                     /\ hist'.delays = hist.delays
        /\ (pc = "alt" /\ hist'.gotText.some) =>
             /\ pc' = "emit"
             /\ text' = hist'.gotText
        /\ (pc = "emit" /\ hist.exhausted /\ ~hist.gotText.some /\ hist.lastErr = "All copyright retry strategies failed") =>
             /\ hist.uploads = 3
             /\ ~EffortMade(hist, hist')
      ]_vars

\* The inline call was blocked and its three alternatives gave nothing; the
\* page went on to the staged tier, whose upload succeeded.
C25_Witness ==
    /\ pc = "poll"
    /\ hist.exhausted
    /\ hist.blocks = 1
    /\ hist.inline_calls = 1
    /\ hist.alt_calls = << 1, 1, 1 >>
    /\ hist.uploads = 1
    /\ hist.primary_calls = 1
    /\ hist.delays = <<>>

(***************************************************************************)
(* C26.  Within one staged attempt between 1 and 60 readiness polls are    *)
(* made.  The attempt goes on to the generation call exactly when its last *)
(* poll observed ACTIVE, also when that was the 60th poll, and a staged    *)
(* generation call is made only from there.  A poll that observes FAILED   *)
(* or a state other than PROCESSING and ACTIVE, or that raises, ends the   *)
(* attempt with an error and without a generation call.  The attempt ends  *)
(* with the timeout error exactly when 60 polls in a row observed          *)
(* PROCESSING.                                                             *)
(***************************************************************************)
C26_GenerateOnlyWhenActive ==
    [][ /\ (pc = "poll") =>
             /\ hist'.polls \in 1..60
             /\ (pc' = "generate") <=> (hist'.lastState = "ACTIVE")
             /\ (hist'.polls = 60 /\ hist'.lastState = "ACTIVE") => pc' = "generate"
             /\ hist'.primary_calls = hist.primary_calls
             /\ (pc' # "generate") =>
                  /\ pc' \in {"upload", "emit"}
                  /\ text' = None
                  /\ hist'.lastErr =
                       CASE hist'.lastState = "FAILED" -> "File processing failed"
                         [] hist'.lastState = "OTHER" -> "Unexpected file state"
                         [] hist'.lastState = "raise" -> "api error"
                         [] OTHER -> "File processing timed out"
                  /\ (hist'.lastState = "PROCESSING") => hist'.polls = 60
        /\ (pc' = "generate") => pc = "poll"
        /\ (tier = "staged" /\ pc # "alt" /\ hist'.primary_calls > hist.primary_calls) =>
             /\ pc = "generate"
             /\ hist.lastState = "ACTIVE"
             /\ hist.polls \in 1..60
      ]_vars

\* The file was in PROCESSING for 59 polls and ACTIVE on the 60th: the
\* attempt is about to make its generation call.
C26_Witness ==
    /\ pc = "generate"
    /\ hist.polls = 60
    /\ hist.lastState = "ACTIVE"
    /\ hist.uploads = 1

\* This step makes a backoff sleep.
Sleeps == Len(hist'.delays) > Len(hist.delays)

LooksUpFile == pc = "rows" /\ lookup'.made /\ (row_idx' = row_idx + 1 \/ pc' = "start")

\* Neither the file named by the filename exists nor, for a filename that
\* does not end in '.pdf' in any case, the one named filename + '.pdf'.
NoCandidateExists(l) ==
    /\ ~l.exact
    /\ (l.name[Len(l.name)] \in {".pdf", ".PDF"} \/ ~l.with_pdf)

(***************************************************************************)
(* C28.  A row with a non-blank filename (taken without its surrounding    *)
(* whitespace) is classified skipped_missing if and only if the file named *)
(* by the filename does not exist and, when the filename does not end in   *)
(* '.pdf' in upper or lower case, the file named filename + '.pdf' does    *)
(* not exist either.  Otherwise process_pdf_to_text is called, with the    *)
(* path named by the filename if that exists and with filename + '.pdf'    *)
(* if not.                                                                 *)
(***************************************************************************)
C28_MissingIffNoCandidate ==
    [][ LooksUpFile =>
          /\ lookup'.name # <<>>
          /\ (row_idx' = row_idx + 1 /\ row_log'[row_idx'] = "skipped_missing")
               <=> NoCandidateExists(lookup')
          /\ NoCandidateExists(lookup') =>
               /\ pc' = "rows"
               /\ pdf_path' = None
               /\ hist' = NewHist
          /\ (~NoCandidateExists(lookup')) =>
               \/ /\ pc' = "start"
                  /\ row_idx' = row_idx
                  /\ pdf_path' = Some(IF lookup'.exact THEN lookup'.name
                                      ELSE lookup'.name \o <<".pdf">>)
               \/ /\ row_idx' = row_idx + 1
                  /\ row_log'[row_idx'] = "failed"
      ]_vars

\* Row 1 named a file that is not there; row 2 names "d", only "d.pdf"
\* exists, and process_pdf_to_text is about to be called with "d.pdf".
C28_Witness ==
    /\ pc = "start"
    /\ row_log = << "skipped_missing" >>
    /\ lookup = [made |-> TRUE, name |-> << "d" >>, exact |-> FALSE, with_pdf |-> TRUE]
    /\ pdf_path = Some(<< "d", ".pdf" >>)

\* This step records the row of a document of which at least one page was
\* recognised.
RecordsPartlyRecognised ==
    /\ batch
    /\ pc = "done"
    /\ row_idx' = row_idx + 1
    /\ successful_pages >= 1

(***************************************************************************)
(* C29.  For every document of which at least one page was recognised,     *)
(* whichever of its pages failed, the row is recorded as processed and the *)
(* text the OCR stage writes to its cell is one the summary stage requests *)
(* a summary for: it is not skipped as '[SKIPPED: OCR failed]'.            *)
(***************************************************************************)
C29_PartialResultsUsable ==
    [][ /\ RecordsPartlyRecognised =>
             /\ row_log'[row_idx'] = "processed"
             /\ SummaryClass(df_ocr'[row_idx']) = "requested"
        /\ \A r \in 1..Len(sumpass'.log) :
             (row_log[r] = "processed" /\ \E i \in 1..Len(df_ocr[r]) : df_ocr[r][i].k = "char")
               => sumpass'.log[r] \in {"processed", "failed"}
      ]_vars

\* This step receives the response to a primary-instruction call.
PrimaryAnswered ==
    /\ pc \in {"inline", "generate"}
    /\ hist'.primary_calls = hist.primary_calls + 1

\* This step receives the response to an alternative-instruction call.
AlternativeAnswered ==
    /\ pc = "alt"
    /\ \E k \in 1..3 : hist'.alt_calls[k] = hist.alt_calls[k] + 1

\* What the HTR processor makes of the response this step received: the
\* text it returns for the page, None when it goes on without one.
HtrTextOf(r, primary) ==
    IF primary
    THEN IF HtrPrimaryError(r) = "" THEN Some(HtrTextContent(r.parts)) ELSE None
    ELSE IF HtrAlternativeText(r) # <<>> THEN Some(HtrAlternativeText(r)) ELSE None

ReturnedText(o) == IF o # <<>> THEN Some(Join(o)) ELSE None

(***************************************************************************)
(* C31.  For a document of at least one page, the content process_pdf has  *)
(* written to its output file equals the string process_pdf_to_text        *)
(* returns for the same page outcomes: whichever of the two runs, what the *)
(* other writes for the same pages comes out token for token the same.     *)
(***************************************************************************)
C31_FileEqualsReturnedText ==
    DocumentDone =>
      IF mode = "to_text"
      THEN result = Some(hist.other)
      ELSE /\ out_file.some
           /\ ReturnedText(hist.other) = Some(out_file.v)

\* process_pdf on two pages: the first raised at extraction, the second was
\* recognised; process_pdf_to_text returns the same three parts.
C31_Witness ==
    /\ DocumentDone
    /\ mode = "to_file"
    /\ total_pages = 2
    /\ out_file = Some(<< ErrorPlaceholder(1, "extract error"), PageMarker(2), Ch("a") >>)
    /\ hist.other = << << ErrorPlaceholder(1, "extract error") >>,
                       << PageMarker(2), Ch("a") >> >>

\* The page numbers recorded in failed_pages.
FailedSet == { failed_pages[j] : j \in 1..Len(failed_pages) }

\* The pages handled so far that were counted successful: those whose page
\* functions returned text that is not blank.
SuccessfulSet == { i \in 1..Len(hist.texts) : PageOk(hist.texts[i]) }

(***************************************************************************)
(* C32.  At every point of the page loop successful_pages plus the length  *)
(* of failed_pages is the number of pages handled so far; failed_pages     *)
(* holds each page number at most once; a page counted successful is not   *)
(* in failed_pages; and when the function ends the sum is total_pages.     *)
(***************************************************************************)
C32_PagesCountedOnce ==
    /\ successful_pages + Len(failed_pages) = page_idx
    /\ Len(hist.texts) = page_idx
    /\ Cardinality(FailedSet) = Len(failed_pages)
    /\ FailedSet \subseteq 1..page_idx
    /\ successful_pages = Cardinality(SuccessfulSet)
    /\ SuccessfulSet \cap FailedSet = {}
    /\ (pc = "done") => successful_pages + Len(failed_pages) = total_pages

\* Two pages done: the first failed, the second succeeded.
C32_Witness ==
    /\ pc = "done"
    /\ total_pages = 2
    /\ successful_pages = 1
    /\ failed_pages = << 1 >>
    /\ SuccessfulSet = {2}

\* This step classifies a row for which a file was found.
ClassifiesFoundRow ==
    /\ batch
    /\ row_idx' = row_idx + 1
    /\ row_in'[row_idx'].found

(***************************************************************************)
(* C33.  A row whose file exists is counted failed exactly when the call   *)
(* of process_pdf_to_text raised or returned nothing, and it returns       *)
(* nothing only when the document could not be opened or has no pages.     *)
(* For a document of at least one page it returns text that is not empty,  *)
(* placeholders included, and the row is counted processed with that text  *)
(* in its cell, even when every page failed.                               *)
(***************************************************************************)
C33_FailedOnlyWithoutPages ==
    [][ ClassifiesFoundRow =>
          LET class == row_log'[row_idx']
              ended == row_in'[row_idx'].ended IN
          /\ class \in {"processed", "failed"}
          /\ stats' = [stats EXCEPT ![class] = @ + 1]
          /\ (class = "failed") <=> (ended = "raise" \/ ~Truthy(result))
          /\ (ended # "raise") =>
                /\ pc = "done"
                /\ (~Truthy(result)) <=> (total_pages = 0)
                /\ (total_pages >= 1) =>
                      /\ page_idx = total_pages
                      /\ class = "processed"
                      /\ df_ocr'[row_idx'] = result.v
                      /\ result.v # <<>>
      ]_vars

\* A row whose document has two pages, both failed: the row is counted
\* processed and its cell holds the two placeholders.
C33_Witness ==
    /\ batch
    /\ pc = "rows"
    /\ row_idx = 1
    /\ row_log = << "processed" >>
    /\ stats.processed = 1
    /\ stats.failed = 0
    /\ df_ocr[1] = << ErrorPlaceholder(1, ""), PageMarker(2), ErrorPlaceholder(2, "") >>

\* The segments of the current file have been transcribed and combined.
SegmentsCombined == audio.pc = "save" /\ audio.split_segments

\* The segment numbers of the labels standing in a transcription, in order.
SegmentNumbers(txt) ==
    LET m == SelectSeq(txt, LAMBDA t : t.k = "segment")
    IN [i \in 1..Len(m) |-> m[i].n]

(***************************************************************************)
(* C34.  With splitting enabled, a file split into M > 1 segments gives a  *)
(* combined transcription of one part per segment in the order 1..M, each  *)
(* part, the first included, labelled '[Segment i]', the part of a failed  *)
(* segment being '[Segment i] TRANSCRIPTION FAILED' at position i; a file  *)
(* that yields a single segment gets no segment label.                     *)
(***************************************************************************)
C34_SegmentLabels ==
    SegmentsCombined =>
      LET M == Len(audio.segment_paths)
          parts == audio.combined_transcription_parts IN
      /\ Len(parts) = M
      /\ audio.transcription = Some(Combined(parts))
      /\ (M > 1) =>
           /\ SegmentNumbers(audio.transcription.v) = [i \in 1..M |-> i]
           /\ \A i \in 1..M :
                /\ parts[i][1] = SegmentHeader(i)
                /\ (~audio.outcomes[i]) =>
                     parts[i] = << SegmentHeader(i), Ch(" "), TranscriptionFailed >>
                /\ audio.outcomes[i] =>
                     \A j \in 2..Len(parts[i]) : parts[i][j].k \in {"char", "newline"}
      /\ (M = 1) => SegmentNumbers(audio.transcription.v) = <<>>

\* The files this step removes from the disk.
Unlinked == audio.disk \ audio'.disk

\* The paths of the segments of the file being handled.
SegmentPathsOfFile == { audio.segment_paths[i] : i \in 1..Len(audio.segment_paths) }

(***************************************************************************)
(* C35.  Segment files are deleted only for a file that was split into     *)
(* more than one segment and whose segments were all transcribed; when a   *)
(* segment failed none of the file's segments is deleted; and no original  *)
(* audio file is ever deleted.                                             *)
(***************************************************************************)
C35_CleanupOnlyAfterFullSuccess ==
    [][ /\ (Unlinked # {}) =>
             /\ audio.pc = "segment"
             /\ Len(audio.segment_paths) > 1
             /\ Len(audio.outcomes) = Len(audio.segment_paths)
             /\ \A i \in 1..Len(audio.outcomes) : audio.outcomes[i]
             /\ Unlinked \subseteq SegmentPathsOfFile
             /\ \A p \in Unlinked : p.kind = "segment" /\ p.file = audio.file_idx + 1
        /\ (\E i \in 1..Len(audio.outcomes) : ~audio.outcomes[i]) => Unlinked = {}
        /\ \A f \in 1..audio.audio_files :
             OriginalFile(f) \in audio.disk => OriginalFile(f) \in audio'.disk
      ]_vars

\* The first file was cut into two segments, both transcribed: the segments
\* are gone and the original is still there.
C35_Witness ==
    /\ audio.pc = "save"
    /\ audio.file_idx = 0
    /\ audio.outcomes = << TRUE, TRUE >>
    /\ SegmentFile(1, 1) \notin audio.disk
    /\ SegmentFile(1, 2) \notin audio.disk
    /\ OriginalFile(1) \in audio.disk

\* No segment of the file (the file itself, without splitting) was
\* transcribed successfully.
NothingTranscribed(d) ==
    IF d.split
    THEN \A i \in 1..Len(d.outcomes) : ~d.outcomes[i]
    ELSE ~Truthy(d.transcription)

(***************************************************************************)
(* C36.  Every audio file handled has incremented exactly one of           *)
(* successful_transcriptions and failed_transcriptions, whatever was       *)
(* raised, so that their sum is the number of files at the end; and a file *)
(* of which no segment was transcribed successfully is counted failed,     *)
(* with or without splitting.                                              *)
(***************************************************************************)
C36_EveryFileCountedOnce ==
    /\ Len(audio.done) = audio.file_idx
    /\ audio.successful_transcriptions
         = Cardinality({ f \in 1..Len(audio.done) : audio.done[f].counted = "successful" })
    /\ audio.failed_transcriptions
         = Cardinality({ f \in 1..Len(audio.done) : audio.done[f].counted = "failed" })
    /\ audio.successful_transcriptions + audio.failed_transcriptions = audio.file_idx
    /\ (audio.pc = "summary") =>
         audio.successful_transcriptions + audio.failed_transcriptions = audio.audio_files
    /\ \A f \in 1..Len(audio.done) :
         NothingTranscribed(audio.done[f]) => audio.done[f].counted = "failed"

\* The PDFs of the direct mode counted in c so far.
PdfsCounted(c) ==
    { i \in 1..Len(overall_stats.log) : overall_stats.log[i].counted = c }

(***************************************************************************)
(* C37.  In the direct mode of main every PDF handled has incremented      *)
(* exactly one of processed_pdfs and failed_pdfs, so that their sum is     *)
(* total_pdfs at the end; a PDF is counted processed exactly when          *)
(* process_pdf returned without raising and its output file exists with    *)
(* more than 100 bytes, whatever the number of its pages that succeeded.   *)
(***************************************************************************)
C37_EveryPdfCountedOnce ==
    /\ Len(overall_stats.log) = overall_stats.idx
    /\ overall_stats.processed_pdfs = Cardinality(PdfsCounted("processed_pdfs"))
    /\ overall_stats.failed_pdfs = Cardinality(PdfsCounted("failed_pdfs"))
    /\ overall_stats.processed_pdfs + overall_stats.failed_pdfs = overall_stats.idx
    /\ (pc = "summary") =>
         overall_stats.processed_pdfs + overall_stats.failed_pdfs = overall_stats.total_pdfs
    /\ \A i \in 1..Len(overall_stats.log) :
         LET seen == overall_stats.log[i] IN
         (seen.counted = "processed_pdfs")
            <=> (~seen.raised /\ seen.exists /\ seen.size >= MinOutputBytes + 1)

\* Two PDFs of one page: the page of the first was recognised, its short
\* output counts as failed; the page of the second failed with a long
\* message, its output counts as processed.
C37_Witness ==
    /\ pc = "summary"
    /\ overall_stats.total_pdfs = 2
    /\ overall_stats.processed_pdfs = 1
    /\ overall_stats.failed_pdfs = 1
    /\ overall_stats.log[1].counted = "failed_pdfs"
    /\ overall_stats.log[1].successful_pages = 1
    /\ overall_stats.log[1].total_pages = 1
    /\ ~overall_stats.log[1].raised
    /\ overall_stats.log[2].counted = "processed_pdfs"
    /\ overall_stats.log[2].successful_pages = 0
    /\ overall_stats.log[2].total_pages = 1

\* The rows of the summary stage counted in class c so far.
SummaryRowsIn(c) == { r \in 1..Len(sumpass.log) : sumpass.log[r] = c }

\* The 'OCR' cell is empty or blank, or starts with '[ERROR:' or '[SKIPPED:'.
NothingToSummarise(c) ==
    \/ \A i \in 1..Len(c) : IsSpace(c[i])
    \/ c[1].k \in {"error", "skipped"}

(***************************************************************************)
(* C38.  In the summary stage a row whose 'OCR' cell is blank or missing   *)
(* or starts with '[ERROR:' or '[SKIPPED:' causes no call of the summary   *)
(* service and gets a '[SKIPPED: ...]' Summary and an empty Keywords cell; *)
(* every row handled increments exactly one of processed, skipped_empty,   *)
(* skipped_error and failed, so that they add up to total_rows at the end; *)
(* and a failure of the service on a row does not stop the rows after it.  *)
(***************************************************************************)
C38_SummaryRowsCounted ==
    /\ Len(sumpass.log) = sumpass.row_idx
    /\ Len(sumpass.calls) = sumpass.row_idx
    /\ \A c \in {"processed", "skipped_empty", "skipped_error", "failed"} :
         sumpass.stats[c] = Cardinality(SummaryRowsIn(c))
    /\ sumpass.stats.processed + sumpass.stats.skipped_empty
         + sumpass.stats.skipped_error + sumpass.stats.failed = sumpass.row_idx
    /\ \A r \in 1..sumpass.row_idx :
         /\ NothingToSummarise(df_ocr[r]) =>
              /\ sumpass.calls[r] = 0
              /\ sumpass.Summary[r] \in {"[SKIPPED: No OCR text provided]",
                                         "[SKIPPED: OCR failed]"}
              /\ sumpass.Keywords[r] = ""
              /\ sumpass.log[r] \in {"skipped_empty", "skipped_error"}
         /\ (sumpass.log[r] = "failed") => sumpass.calls[r] = 1
    /\ (sumpass.pc \in {"exit", "error"} /\ sumpass.row_idx > 0) =>
         sumpass.row_idx = total_rows
    /\ (sumpass.pc = "rows") => sumpass.row_idx <= total_rows

\* Three rows: the service failed on the first, the second holds an OCR
\* error marker, the third was summarised after them; the sheet is saved.
C38_Witness ==
    /\ pc = "summary"
    /\ sumpass.pc = "exit"
    /\ total_rows = 3
    /\ df_ocr[2] = ErrorCell("OCR processing failed")
    /\ sumpass.log = << "failed", "skipped_error", "processed" >>
    /\ sumpass.calls = << 1, 0, 1 >>
    /\ sumpass.stats = [processed |-> 1, skipped_empty |-> 0, skipped_error |-> 1, failed |-> 1]

ColumnsNext ==
    \/ SheetNext
    \/ SummaryNext

\* A call of process_with_spreadsheet, of the OCR stage or of the summary
\* stage, on a sheet that may lack the column it reads.
SpecColumns == (SheetInit \/ SummaryInit) /\ [][ColumnsNext]_vars

\* process_with_spreadsheet has returned because the input column is missing.
Returned == pc = "return" \/ sumpass.pc = "return"

\* Nothing has been done with the sheet: no row visited, no cell or column
\* written, no call made, the file not rewritten.
SheetUntouched ==
    /\ row_idx = 0
    /\ row_log = <<>>
    /\ cell_writes = <<>>
    /\ df_ocr = <<>>
    /\ saves = 0
    /\ hist = NewHist
    /\ sumpass.row_idx = 0
    /\ sumpass.calls = <<>>
    /\ sumpass.Summary = <<>>
    /\ sumpass.saves = 0

(***************************************************************************)
(* C39.  If the spreadsheet lacks the input column ('filename' for the OCR *)
(* stage, 'OCR' for the summary stage), process_with_spreadsheet returns   *)
(* at once: no row is visited, the service is not called, no column is     *)
(* added and the spreadsheet file is not rewritten, and nothing happens    *)
(* afterwards.                                                             *)
(***************************************************************************)
C39_MissingColumnReturns ==
    [][ /\ (pc = "sheet" /\ columns' # {} /\ "filename" \notin columns') =>
             /\ pc' = "return"
             /\ SheetUntouched'
             /\ columns' = {"title"}
        /\ (pc = "summary_sheet" /\ columns' # {} /\ "OCR" \notin columns') =>
             /\ sumpass'.pc = "return"
             /\ SheetUntouched'
             /\ columns' = {"filename"}
        /\ ~Returned
      ]_vars

\* The OCR stage has returned from a sheet without a 'filename' column.
C39_Witness ==
    /\ pc = "return"
    /\ batch
    /\ columns = {"title"}
    /\ SheetUntouched

====
